---------------------------- MODULE Spec2Model ----------------------------
(***************************************************************************)
(* Risk-aware maritime routing backend: grid-graph construction, the       *)
(* weather / AIS-traffic / geopolitics refreshes of node attributes, the   *)
(* mode-parameterised shortest-path router and the safety overlay.         *)
(*                                                                         *)
(* Units.  Latitude and longitude are integers in tenths of a degree (the  *)
(* lattice step GRID_LAT_STEP = 0.1 degree is 1).  Distances are integers  *)
(* in tenths of a nautical mile.  Wave height is in half metres and wind   *)
(* speed in m/s, so the continuous weather penalty is an integer.  Edge    *)
(* costs are kept multiplied by 4 (the endpoint average divides by 2 and   *)
(* the fast-mode traffic coefficient is 0.5), safety scores multiplied by  *)
(* 2 (the weather weight is 0.5).                                          *)
(***************************************************************************)
EXTENDS Integers, Sequences, FiniteSets, TLC

VARIABLES
    bathy,      \* the bathymetry dataset: lattice point -> elevation (m)
    G,          \* the routing graph (GRAPH of main.py), NoGraph before the build
    last,       \* the last operation applied and the inputs it drew
    refreshes,  \* number of refreshes applied so far
    response,   \* the last answer of the /route handler
    safety,     \* the safety overlay (SAFETY_LAYER of main.py)
    ais,        \* the AIS collection coroutine: its position, clock and locals
    boot,       \* the startup sequence of main.py: its position and its log
    passes      \* the refresh loops in flight: each loop's input and position

vars == <<bathy, G, last, refreshes, response, safety, ais, boot, passes>>

----------------------------------------------------------------------------
(* Bounds of the model *)

NCols == 3
MaxLand == 2
MaxRefreshes == 2
MaxVessels == 3
MaxReports == 3

----------------------------------------------------------------------------
(* config.py *)

GRID_LAT_STEP == 1
GRID_LON_STEP == 1
MIN_DEPTH_METERS == 50
WEATHER_CELL_SIZE_DEG == 20
TRAFFIC_CELL_SIZE_DEG == 10
WAVE_THR_START == 3
WIND_SPEED_THRESHOLD_MS == 8
WEATHER_WAVE_WEIGHT == 6
WEATHER_WIND_WEIGHT == 3

Absent == 0 - 1
None == 0 - 999

\* The elements of a sequence.
SeqToSet(sq) == {sq[k] : k \in DOMAIN sq}

Abs(x) == IF x < 0 THEN 0 - x ELSE x
Max2(a, b) == IF a > b THEN a ELSE b

\* Python's round(): to the nearest integer, ties to the even one; num/den, den > 0.
PyRound(num, den) ==
    LET q == num \div den
        r == num % den
    IN  IF 2 * r < den THEN q
        ELSE IF 2 * r > den THEN q + 1
        ELSE IF q % 2 = 0 THEN q ELSE q + 1

----------------------------------------------------------------------------
(* The bounding box handed to build_grid_graph and its lattice *)

lat_range == <<345, 346>>
lon_range == <<309, 309 + (NCols - 1) * GRID_LON_STEP>>

lat_values ==
    {lat_range[1] + i * GRID_LAT_STEP :
        i \in 0..((lat_range[2] - lat_range[1]) \div GRID_LAT_STEP)}
lon_values ==
    {lon_range[1] + i * GRID_LON_STEP :
        i \in 0..((lon_range[2] - lon_range[1]) \div GRID_LON_STEP)}

Lattice == lat_values \X lon_values

\* node_id = f"{lat:.3f},{lon:.3f}": the pair of coordinates rounded to thousandths
\* of a degree, which lattice coordinates (multiples of 0.1) already are.
NodeId(lat, lon) == <<lat, lon>>

----------------------------------------------------------------------------
(* data_sources.py: the bathymetry adapter *)

\* is_land: elevation >= 5 m
is_land(ds, lat, lon) == ds[<<lat, lon>>] >= 5

get_depth_at(ds, lat, lon) ==
    LET depth_value == ds[<<lat, lon>>]
    IN  IF depth_value < 0 THEN 0 - depth_value ELSE 0

is_shallow(ds, lat, lon) == get_depth_at(ds, lat, lon) < MIN_DEPTH_METERS

\* The datasets the model draws from.  SeaMap(L, coast): land (5 m) at the
\* points of L; with coast, a low shore (4 m, below the land threshold) along the
\* second meridian of the window; deep water (-200 m) elsewhere.  At most MaxLand
\* points of land, or at most two points that are not land.
SeaMap(L, coast) ==
    [p \in Lattice |->
        IF p \in L THEN 5
        ELSE IF coast /\ p[2] = lon_range[1] + GRID_LON_STEP THEN 4
        ELSE 0 - 200]

SeaMaps ==
    {SeaMap(L, coast) :
        L \in {S \in SUBSET Lattice : Cardinality(S) <= MaxLand}, coast \in BOOLEAN}
    \cup {SeaMap(L, FALSE) :
        L \in {S \in SUBSET Lattice : Cardinality(Lattice \ S) <= 2}}

----------------------------------------------------------------------------
(* Static hazard zones and the geopolitics configuration (the GeoJSON data   *)
(* files).  A polygon is an axis-aligned rectangle; shapely's contains() is  *)
(* true for interior points only.                                            *)

Rect(latLo, latHi, lonLo, lonHi) ==
    [latLo |-> latLo, latHi |-> latHi, lonLo |-> lonLo, lonHi |-> lonHi]

contains(poly, lat, lon) ==
    /\ poly.latLo < lat /\ lat < poly.latHi
    /\ poly.lonLo < lon /\ lon < poly.lonHi

\* load_piracy_zones / load_weather_zones: features with riskLevel / severity
PiracyFeatures ==
    << [polygon |-> Rect(344, 350, 308, 310), riskLevel |-> 2],
       [polygon |-> Rect(345, 350, 308, 311), riskLevel |-> 3] >>

WeatherFeatures ==
    << [polygon |-> Rect(344, 346, 309, 320), severity |-> 2] >>

\* build_risk_polygons: (polygon, riskLevel or 3), (polygon, severity or 2)
piracy_polygons ==
    [i \in DOMAIN PiracyFeatures |->
        <<PiracyFeatures[i].polygon,
          IF PiracyFeatures[i].riskLevel = 0 THEN 3 ELSE PiracyFeatures[i].riskLevel>>]

weather_polygons ==
    [i \in DOMAIN WeatherFeatures |->
        <<WeatherFeatures[i].polygon,
          IF WeatherFeatures[i].severity = 0 THEN 2 ELSE WeatherFeatures[i].severity>>]

Flags == {"TZA", "IRN"}
NoFlags == [f \in Flags |-> 0]

\* load_geopolitics_config: (polygon, base_risk, target_flags, zone_id, notes)
geopolitics_polygons ==
    << [poly |-> Rect(344, 350, 309, 312), base_risk |-> 2,
        target_flags |-> [f \in Flags |-> IF f = "TZA" THEN 3 ELSE 0],
        zone_id |-> "red_sea", notes |-> "Houthi attacks"],
       [poly |-> Rect(345, 350, 308, 311), base_risk |-> 1,
        target_flags |-> [f \in Flags |-> IF f = "TZA" THEN 1 ELSE 4],
        zone_id |-> "hormuz", notes |-> ""] >>

----------------------------------------------------------------------------
(* graph_builder.py *)

NoGraph == [nodes |-> {}, edges |-> {}, distance_nm |-> <<>>, attr |-> <<>>, built |-> FALSE]

\* haversine() * 0.539957 between lattice points of the window, in tenths of a
\* nautical mile: 0.1 degree of latitude is 6.0 nm, 0.1 degree of longitude at
\* 34.5 N is 4.9 nm.
NM_PER_LAT_STEP == 60
NM_PER_LON_STEP == 49

\* The square of the great-circle distance (planar within the window).
HaversineSq(p1, p2) ==
    (NM_PER_LAT_STEP * (p1[1] - p2[1])) * (NM_PER_LAT_STEP * (p1[1] - p2[1]))
    + (NM_PER_LON_STEP * (p1[2] - p2[2])) * (NM_PER_LON_STEP * (p1[2] - p2[2]))

\* dist_nm of two points on one meridian or one parallel.
dist_nm(p1, p2) ==
    NM_PER_LAT_STEP * Abs(p1[1] - p2[1]) + NM_PER_LON_STEP * Abs(p1[2] - p2[2])

RECURSIVE MaxLevel(_, _, _, _)
\* max(level) over the polygons polys[i..] that contain the point, 0 if none
MaxLevel(polys, i, lat, lon) ==
    IF i > Len(polys) THEN 0
    ELSE LET rest == MaxLevel(polys, i + 1, lat, lon)
         IN  IF contains(polys[i][1], lat, lon) THEN Max2(polys[i][2], rest) ELSE rest

compute_node_risks(lat, lon, ds) ==
    [piracy_risk   |-> MaxLevel(piracy_polygons, 1, lat, lon),
     weather_risk  |-> MaxLevel(weather_polygons, 1, lat, lon),
     depth_penalty |-> IF is_shallow(ds, lat, lon) THEN 1 ELSE 0]

RECURSIVE BuildGeoFold(_, _, _, _, _)
\* The geopolitics loop of build_grid_graph: max base risk and max extra per flag
\* over the polygons polys[i..] that contain the point.
BuildGeoFold(polys, i, lat, lon, acc) ==
    IF i > Len(polys) THEN acc
    ELSE IF contains(polys[i].poly, lat, lon)
         THEN BuildGeoFold(polys, i + 1, lat, lon,
                [geo_base_risk |-> IF polys[i].base_risk > acc.geo_base_risk
                                   THEN polys[i].base_risk ELSE acc.geo_base_risk,
                 geo_target_flags |-> [f \in Flags |->
                              IF polys[i].target_flags[f] > acc.geo_target_flags[f]
                              THEN polys[i].target_flags[f]
                              ELSE acc.geo_target_flags[f]]])
         ELSE BuildGeoFold(polys, i + 1, lat, lon, acc)

\* The node loop of build_grid_graph: only water cells, with their attributes.
\* traffic_risk and geo_zones are not set at build time.
\* A faulty variant of BuildNodes: the points skipped are the shallow ones
\* instead of the land ones.
BuildNodes_skip_shallow(ds) ==
    {NodeId(p[1], p[2]) : p \in {q \in Lattice : ~is_shallow(ds, q[1], q[2])}}

BuildNodes(ds) ==
    {NodeId(p[1], p[2]) : p \in {q \in Lattice : ~is_land(ds, q[1], q[2])}}

BuildAttr(ds, n) ==
    LET r == compute_node_risks(n[1], n[2], ds)
        g == BuildGeoFold(geopolitics_polygons, 1, n[1], n[2],
                          [geo_base_risk |-> 0, geo_target_flags |-> NoFlags])
    IN  [lat |-> n[1], lon |-> n[2],
         piracy_risk |-> r.piracy_risk,
         weather_risk |-> r.weather_risk,
         depth_penalty |-> r.depth_penalty,
         traffic_risk |-> Absent,
         geo_base_risk |-> g.geo_base_risk,
         geo_target_flags |-> g.geo_target_flags,
         geo_zones |-> <<>>]

\* The four lattice neighbours tried by the edge loop.
neighbors(lat, lon) ==
    { <<lat + GRID_LAT_STEP, lon>>, <<lat - GRID_LAT_STEP, lon>>,
      <<lat, lon + GRID_LON_STEP>>, <<lat, lon - GRID_LON_STEP>> }

\* A faulty variant of BuildEdges: the neighbour is not tested for membership in
\* the graph, so that an edge is added towards land and beyond the window.
BuildEdges_unchecked(nodes) ==
    UNION { { {NodeId(p[1], p[2]), NodeId(q[1], q[2])} : q \in neighbors(p[1], p[2]) } :
            p \in {x \in Lattice : NodeId(x[1], x[2]) \in nodes} }

\* The edge loop of build_grid_graph: from every lattice point that is a node,
\* an edge to each of the four neighbours that is a node.
BuildEdges(nodes) ==
    UNION { { {NodeId(p[1], p[2]), NodeId(q[1], q[2])} :
                q \in {x \in neighbors(p[1], p[2]) : NodeId(x[1], x[2]) \in nodes} } :
            p \in {x \in Lattice : NodeId(x[1], x[2]) \in nodes} }

build_grid_graph(ds) ==
    LET nodes == BuildNodes(ds)
        edges == BuildEdges(nodes)
    IN  [nodes |-> nodes,
         edges |-> edges,
         distance_nm |-> [e \in edges |->
                            LET u == CHOOSE x \in e : TRUE
                                v == CHOOSE x \in e : x # u
                            IN  dist_nm(u, v)],
         attr |-> [n \in nodes |-> BuildAttr(ds, n)],
         built |-> TRUE]

----------------------------------------------------------------------------
(* live_weather.py *)

\* _cell_for_latlon of live_weather.py
WeatherCell(lat, lon) ==
    <<PyRound(lat, WEATHER_CELL_SIZE_DEG) * WEATHER_CELL_SIZE_DEG,
      PyRound(lon, WEATHER_CELL_SIZE_DEG) * WEATHER_CELL_SIZE_DEG>>

\* What fetch_wave_wind_for_cell can return for a cell: (None, None) on a failed
\* request, else (wave height in half metres, wind speed in m/s).
FetchFailed == <<None, None>>
FetchOutcomes == {FetchFailed, <<2, 5>>, <<6, 10>>}

\* A faulty variant of continuous_weather_penalty: the excess over each
\* threshold is added whatever its sign, and the result is not clamped.
continuous_weather_penalty_signed(wave_m, wind_ms) ==
    LET wave_part == IF wave_m # None
                     THEN (WEATHER_WAVE_WEIGHT * (wave_m - WAVE_THR_START)) \div 2
                     ELSE 0
        wind_part == IF wind_ms # None
                     THEN WEATHER_WIND_WEIGHT * (wind_ms - WIND_SPEED_THRESHOLD_MS)
                     ELSE 0
    IN  wave_part + wind_part

continuous_weather_penalty(wave_m, wind_ms) ==
    LET wave_part == IF wave_m # None /\ wave_m > WAVE_THR_START
                     THEN (WEATHER_WAVE_WEIGHT * (wave_m - WAVE_THR_START)) \div 2
                     ELSE 0
        wind_part == IF wind_ms # None /\ wind_ms > WIND_SPEED_THRESHOLD_MS
                     THEN WEATHER_WIND_WEIGHT * (wind_ms - WIND_SPEED_THRESHOLD_MS)
                     ELSE 0
        penalty == wave_part + wind_part
    IN  IF penalty < 0 THEN 0 ELSE penalty

\* The populated weather cells of a graph (step 1 of update_graph_weather).
WeatherCells(g) == {WeatherCell(g.attr[n].lat, g.attr[n].lon) : n \in g.nodes}

\* A faulty variant of update_graph_weather: the nodes of a cell whose fetch
\* failed are dropped from the graph.
update_graph_weather_drops(g, fetched) ==
    LET kept == {n \in g.nodes :
                    fetched[WeatherCell(g.attr[n].lat, g.attr[n].lon)] # FetchFailed}
        edges == {e \in g.edges : e \subseteq kept}
    IN  [g EXCEPT !.nodes = kept,
                  !.edges = edges,
                  !.distance_nm = [e \in edges |-> g.distance_nm[e]],
                  !.attr = [n \in kept |->
                    LET cell == WeatherCell(g.attr[n].lat, g.attr[n].lon)
                    IN  [g.attr[n] EXCEPT !.weather_risk =
                            continuous_weather_penalty(fetched[cell][1], fetched[cell][2])]]]

\* update_graph_weather, with fetched[cell] the answer of the weather source
update_graph_weather(g, fetched) ==
    [g EXCEPT !.attr =
        [n \in g.nodes |->
            LET cell == WeatherCell(g.attr[n].lat, g.attr[n].lon)
            IN  [g.attr[n] EXCEPT !.weather_risk =
                    continuous_weather_penalty(fetched[cell][1], fetched[cell][2])]]]

----------------------------------------------------------------------------
(* ais_traffic.py *)

\* _cell_for_latlon of ais_traffic.py
TrafficCell(lat, lon) ==
    <<PyRound(lat, TRAFFIC_CELL_SIZE_DEG) * TRAFFIC_CELL_SIZE_DEG,
      PyRound(lon, TRAFFIC_CELL_SIZE_DEG) * TRAFFIC_CELL_SIZE_DEG>>

\* A faulty variant of vessel_count_to_risk: the breakpoints are inclusive.
vessel_count_to_risk_inclusive(count) ==
    IF count <= 0 THEN 0
    ELSE IF count <= 3 THEN 1
    ELSE IF count <= 10 THEN 2
    ELSE 3

vessel_count_to_risk(count) ==
    IF count <= 0 THEN 0
    ELSE IF count < 3 THEN 1
    ELSE IF count < 10 THEN 2
    ELSE 3

\* The bounding box of the AIS subscription (AIS_LAT_RANGE, AIS_LON_RANGE).
AIS_LAT_RANGE == <<0 - 100, 350>>
AIS_LON_RANGE == <<300, 650>>

NoCell == <<None, None>>
Vessels == 1..MaxVessels

\* What the AIS stream delivers before the collection window closes: position
\* reports, and a transport error or undecodable message ("error").
Report(mmsi, lat, lon) == [kind |-> "report", mmsi |-> mmsi, lat |-> lat, lon |-> lon]
StreamError == [kind |-> "error", mmsi |-> None, lat |-> None, lon |-> None]

RECURSIVE CollectLoop_keep_first(_, _, _)
\* A faulty variant of CollectLoop: a vessel stays in the first cell it was
\* seen in.
CollectLoop_keep_first(events, i, mmsi_to_cell) ==
    IF i > Len(events) THEN [raised |-> FALSE, mmsi_to_cell |-> mmsi_to_cell]
    ELSE LET ev == events[i]
         IN  IF ev.kind = "error"
             THEN [raised |-> TRUE, mmsi_to_cell |-> mmsi_to_cell]
             ELSE IF ev.kind # "report" \/ ev.lat = None \/ ev.lon = None \/ ev.mmsi = None
             THEN CollectLoop_keep_first(events, i + 1, mmsi_to_cell)
             ELSE IF ~(/\ AIS_LAT_RANGE[1] <= ev.lat /\ ev.lat <= AIS_LAT_RANGE[2]
                       /\ AIS_LON_RANGE[1] <= ev.lon /\ ev.lon <= AIS_LON_RANGE[2])
             THEN CollectLoop_keep_first(events, i + 1, mmsi_to_cell)
             ELSE IF mmsi_to_cell[ev.mmsi] # NoCell
             THEN CollectLoop_keep_first(events, i + 1, mmsi_to_cell)
             ELSE CollectLoop_keep_first(events, i + 1,
                    [mmsi_to_cell EXCEPT ![ev.mmsi] = TrafficCell(ev.lat, ev.lon)])

RECURSIVE CollectLoop(_, _, _)
\* The receive loop of _collect_traffic_snapshot_async over the messages that
\* arrive before the deadline: the latest cell per MMSI, or "exception".
CollectLoop(events, i, mmsi_to_cell) ==
    IF i > Len(events) THEN [raised |-> FALSE, mmsi_to_cell |-> mmsi_to_cell]
    ELSE LET ev == events[i]
         IN  IF ev.kind = "error"
             THEN [raised |-> TRUE, mmsi_to_cell |-> mmsi_to_cell]
             ELSE IF ev.kind # "report" \/ ev.lat = None \/ ev.lon = None \/ ev.mmsi = None
             THEN CollectLoop(events, i + 1, mmsi_to_cell)
             ELSE IF ~(/\ AIS_LAT_RANGE[1] <= ev.lat /\ ev.lat <= AIS_LAT_RANGE[2]
                       /\ AIS_LON_RANGE[1] <= ev.lon /\ ev.lon <= AIS_LON_RANGE[2])
             THEN CollectLoop(events, i + 1, mmsi_to_cell)
             ELSE CollectLoop(events, i + 1,
                    [mmsi_to_cell EXCEPT ![ev.mmsi] = TrafficCell(ev.lat, ev.lon)])

\* The count of unique MMSIs per cell.
CellCounts(mmsi_to_cell) ==
    [c \in {mmsi_to_cell[v] : v \in DOMAIN mmsi_to_cell} \ {NoCell} |->
        Cardinality({v \in DOMAIN mmsi_to_cell : mmsi_to_cell[v] = c})]

\* _collect_traffic_snapshot_async: {} without an API key, when the connection
\* cannot be opened and on any exception in the loop.
collect_traffic_snapshot(stream) ==
    IF ~stream.api_key \/ ~stream.connects THEN <<>>
    ELSE LET r == CollectLoop(stream.events, 1, [v \in Vessels |-> NoCell])
         IN  IF r.raised THEN <<>> ELSE CellCounts(r.mmsi_to_cell)

\* The streams the model draws from: up to MaxReports messages, each a position
\* report of one of the vessels at one of two positions, or an error.
AisPositions == {<<345, 310>>, <<346, 310>>}
AisMessages ==
    {Report(v, p[1], p[2]) : v \in Vessels, p \in AisPositions} \cup {StreamError}
AisEventSeqs == UNION {[1..k -> AisMessages] : k \in 0..MaxReports}
AisStreams ==
    {[api_key |-> FALSE, connects |-> TRUE, events |-> <<>>],
     [api_key |-> TRUE, connects |-> FALSE, events |-> <<>>]}
    \cup {[api_key |-> TRUE, connects |-> TRUE, events |-> es] : es \in AisEventSeqs}

\* The snapshots a traffic refresh can collect.
Snapshots == {collect_traffic_snapshot(s) : s \in AisStreams}

\* How a collection ended: without an API key, with a refused connection, with
\* an exception in the receive loop, with no message at all, or with reports.
StreamKind(s) ==
    IF ~s.api_key THEN "no_key"
    ELSE IF ~s.connects THEN "connect_failed"
    ELSE IF StreamError \in SeqToSet(s.events) THEN "error"
    ELSE IF s.events = <<>> THEN "silent"
    ELSE "data"

\* The collections a traffic refresh can see: how it ended and its snapshot.
\* Besides the streams enumerated message by message, two busy ones whose
\* snapshot has 9 or 10 vessels in the northern cell.
TrafficOutcomes ==
    {[stream |-> StreamKind(s), cell_counts |-> collect_traffic_snapshot(s)] :
        s \in AisStreams}
    \cup {[stream |-> "data", cell_counts |-> (TrafficCell(346, 310) :> k)] : k \in {9, 10}}

\* cell_counts.get(cell, 0)
CountGet(cell_counts, cell) ==
    IF cell \in DOMAIN cell_counts THEN cell_counts[cell] ELSE 0

\* A faulty variant of ApplyTrafficSnapshot: an empty snapshot resets every node
\* to the default 0.
ApplyTrafficSnapshot_reset(g, cell_counts) ==
    [g EXCEPT !.attr =
        [n \in g.nodes |->
            [g.attr[n] EXCEPT !.traffic_risk =
                vessel_count_to_risk(
                    CountGet(cell_counts, TrafficCell(g.attr[n].lat, g.attr[n].lon)))]]]

\* update_graph_traffic_from_ais, with cell_counts the snapshot collected
ApplyTrafficSnapshot(g, cell_counts) ==
    IF DOMAIN cell_counts = {}
    THEN [g EXCEPT !.attr =
            [n \in g.nodes |->
                IF g.attr[n].traffic_risk = Absent
                THEN [g.attr[n] EXCEPT !.traffic_risk = 0]
                ELSE g.attr[n]]]
    ELSE [g EXCEPT !.attr =
            [n \in g.nodes |->
                [g.attr[n] EXCEPT !.traffic_risk =
                    vessel_count_to_risk(
                        CountGet(cell_counts,
                                 TrafficCell(g.attr[n].lat, g.attr[n].lon)))]]]

----------------------------------------------------------------------------
(* geopolitics.py *)

RECURSIVE ApplyGeoFold_sum(_, _, _, _, _)
\* A faulty variant of ApplyGeoFold: the extras of the covering zones are added
\* up per flag.
ApplyGeoFold_sum(polys, i, lat, lon, acc) ==
    IF i > Len(polys) THEN acc
    ELSE IF ~contains(polys[i].poly, lat, lon)
         THEN ApplyGeoFold_sum(polys, i + 1, lat, lon, acc)
         ELSE ApplyGeoFold_sum(polys, i + 1, lat, lon,
                [base_max |-> IF polys[i].base_risk > acc.base_max
                              THEN polys[i].base_risk ELSE acc.base_max,
                 flags |-> [f \in Flags |-> acc.flags[f] + polys[i].target_flags[f]],
                 zones |-> IF \E k \in DOMAIN acc.zones : acc.zones[k] = polys[i].zone_id
                           THEN acc.zones
                           ELSE Append(acc.zones, polys[i].zone_id)])

RECURSIVE ApplyGeoFold(_, _, _, _, _)
\* The polygon loop of apply_geopolitics_to_graph for one node.
ApplyGeoFold(polys, i, lat, lon, acc) ==
    IF i > Len(polys) THEN acc
    ELSE IF ~contains(polys[i].poly, lat, lon)
         THEN ApplyGeoFold(polys, i + 1, lat, lon, acc)
         ELSE ApplyGeoFold(polys, i + 1, lat, lon,
                [base_max |-> IF polys[i].base_risk > acc.base_max
                              THEN polys[i].base_risk ELSE acc.base_max,
                 flags |-> [f \in Flags |->
                              IF polys[i].target_flags[f] > acc.flags[f]
                              THEN polys[i].target_flags[f] ELSE acc.flags[f]],
                 zones |-> IF \E k \in DOMAIN acc.zones : acc.zones[k] = polys[i].zone_id
                           THEN acc.zones
                           ELSE Append(acc.zones, polys[i].zone_id)])

\* A faulty variant of apply_geopolitics_to_graph: the base risk found is added
\* to the one the node already carries.
apply_geopolitics_to_graph_accumulates(g) ==
    [g EXCEPT !.attr =
        [n \in g.nodes |->
            LET r == ApplyGeoFold(geopolitics_polygons, 1, g.attr[n].lat, g.attr[n].lon,
                                  [base_max |-> 0, flags |-> NoFlags, zones |-> <<>>])
            IN  [g.attr[n] EXCEPT !.geo_base_risk = g.attr[n].geo_base_risk + r.base_max,
                                  !.geo_target_flags = r.flags,
                                  !.geo_zones = r.zones]]]

apply_geopolitics_to_graph(g) ==
    [g EXCEPT !.attr =
        [n \in g.nodes |->
            LET r == ApplyGeoFold(geopolitics_polygons, 1, g.attr[n].lat, g.attr[n].lon,
                                  [base_max |-> 0, flags |-> NoFlags, zones |-> <<>>])
            IN  [g.attr[n] EXCEPT !.geo_base_risk = r.base_max,
                                  !.geo_target_flags = r.flags,
                                  !.geo_zones = r.zones]]]

----------------------------------------------------------------------------
(* routing.py *)

Modes == {"fast", "safe", "balanced"}
NoIso == "None"
NoPort == "None"

\* load_ports_from_wpi: the port registry (PORTS of main.py)
PORTS ==
    [pid \in {"TZ1", "AT1"} |->
        IF pid = "TZ1"
        THEN [country |-> "Tanzania", latitude |-> 345, longitude |-> 309]
        ELSE [country |-> "Atlantis", latitude |-> 346, longitude |-> 311]]

\* country_aliases of the geopolitics configuration
country_aliases == [c \in {"Tanzania", "Iran"} |-> IF c = "Tanzania" THEN "TZA" ELSE "IRN"]

\* infer_vessel_iso3_from_origin_country (geopolitics.py): aliases.get(country)
infer_vessel_iso3_from_origin_country(origin_country) ==
    IF origin_country \in DOMAIN country_aliases
    THEN country_aliases[origin_country] ELSE NoIso

\* The nodes in enumeration order: the order in which build_grid_graph adds them,
\* latitude by latitude and, within one, longitude by longitude.
Before(p, q) == p[1] < q[1] \/ (p[1] = q[1] /\ p[2] < q[2])

RECURSIVE NodeSeqOf(_)
NodeSeqOf(S) ==
    IF S = {} THEN <<>>
    ELSE LET first == CHOOSE p \in S : \A q \in S \ {p} : Before(p, q)
         IN  <<first>> \o NodeSeqOf(S \ {first})

NodeSeq(g) == NodeSeqOf(g.nodes)

NoNode == <<None, None>>

RECURSIVE ClosestScan_keeps_last(_, _, _, _, _)
\* A faulty variant of ClosestScan: a node replaces the best one when it is as
\* close.
ClosestScan_keeps_last(nodes, i, pt, best_node, best_d) ==
    IF i > Len(nodes) THEN best_node
    ELSE LET d == HaversineSq(pt, nodes[i])
         IN  IF best_d = Absent \/ d <= best_d
             THEN ClosestScan_keeps_last(nodes, i + 1, pt, nodes[i], d)
             ELSE ClosestScan_keeps_last(nodes, i + 1, pt, best_node, best_d)

RECURSIVE ClosestScan(_, _, _, _, _)
\* The scan of find_closest_node: a node replaces the best one only when it is
\* strictly closer.  best_d = Absent stands for float("inf").
ClosestScan(nodes, i, pt, best_node, best_d) ==
    IF i > Len(nodes) THEN best_node
    ELSE LET d == HaversineSq(pt, nodes[i])
         IN  IF best_d = Absent \/ d < best_d
             THEN ClosestScan(nodes, i + 1, pt, nodes[i], d)
             ELSE ClosestScan(nodes, i + 1, pt, best_node, best_d)

find_closest_node(g, lat, lon) ==
    ClosestScan(NodeSeq(g), 1, <<lat, lon>>, NoNode, Absent)

\* _resolve_origin_or_destination: the coordinates, or a ValueError
resolve_origin_or_destination(od) ==
    IF od.type = "port"
    THEN IF od.portId \notin DOMAIN PORTS
         THEN [raised |-> "ValueError", message |-> "Port not found", lat |-> None, lon |-> None]
         ELSE [raised |-> "none", message |-> "",
               lat |-> PORTS[od.portId].latitude, lon |-> PORTS[od.portId].longitude]
    ELSE IF od.latitude = None \/ od.longitude = None
         THEN [raised |-> "ValueError", message |-> "Latitude/longitude required",
               lat |-> None, lon |-> None]
         ELSE [raised |-> "none", message |-> "", lat |-> od.latitude, lon |-> od.longitude]

\* _infer_vessel_iso3
infer_vessel_iso3(route_request) ==
    IF route_request.origin.type # "port" THEN NoIso
    ELSE IF route_request.origin.portId = NoPort THEN NoIso
    ELSE IF route_request.origin.portId \notin DOMAIN PORTS THEN NoIso
    ELSE infer_vessel_iso3_from_origin_country(PORTS[route_request.origin.portId].country)

\* A faulty variant of Lambda2: safe mode gives piracy no weight.
Lambda2_safe_ignores_piracy(mode) ==
    IF mode = "fast"
    THEN [p |-> 0, w |-> 0, d |-> 2, t |-> 1, geo |-> 0]
    ELSE IF mode = "safe"
    THEN [p |-> 0, w |-> 12, d |-> 60, t |-> 20, geo |-> 100]
    ELSE [p |-> 20, w |-> 6, d |-> 20, t |-> 8, geo |-> 8]

\* The per-mode coefficients of build_weight_function, doubled (fast-mode
\* traffic is 0.5).
Lambda2(mode) ==
    IF mode = "fast"
    THEN [p |-> 0, w |-> 0, d |-> 2, t |-> 1, geo |-> 0]
    ELSE IF mode = "safe"
    THEN [p |-> 100, w |-> 12, d |-> 60, t |-> 20, geo |-> 100]
    ELSE [p |-> 20, w |-> 6, d |-> 20, t |-> 8, geo |-> 8]

\* node.get("traffic_risk", 0)
TrafficOf(g, n) == IF g.attr[n].traffic_risk = Absent THEN 0 ELSE g.attr[n].traffic_risk

\* A faulty variant of geopolitical_node_penalty: without a vessel flag, the
\* largest extra of the node is added to the base.
geopolitical_node_penalty_worst_case(g, vessel_iso3, n) ==
    IF vessel_iso3 = NoIso
    THEN g.attr[n].geo_base_risk
         + (CHOOSE m \in {g.attr[n].geo_target_flags[f] : f \in Flags} :
                \A f \in Flags : g.attr[n].geo_target_flags[f] <= m)
    ELSE g.attr[n].geo_base_risk
         + (IF vessel_iso3 \in Flags THEN g.attr[n].geo_target_flags[vessel_iso3] ELSE 0)

\* geopolitical_node_penalty of build_weight_function
geopolitical_node_penalty(g, vessel_iso3, n) ==
    IF vessel_iso3 = NoIso THEN g.attr[n].geo_base_risk
    ELSE g.attr[n].geo_base_risk
         + (IF vessel_iso3 \in Flags THEN g.attr[n].geo_target_flags[vessel_iso3] ELSE 0)

\* A faulty variant of weight: the risk terms are those of the node entered
\* instead of the average over both endpoints.
weight_entered_node(g, mode, vessel_iso3, u, v) ==
    LET l == Lambda2(mode)
        dist == g.distance_nm[{u, v}]
    IN  4 * dist + l.p * 2 * g.attr[v].piracy_risk + l.w * 2 * g.attr[v].weather_risk
        + l.d * 2 * g.attr[v].depth_penalty + l.t * 2 * TrafficOf(g, v)
        + l.geo * 2 * geopolitical_node_penalty(g, vessel_iso3, v)

\* weight(u, v, attrs) of build_weight_function, times 4
weight(g, mode, vessel_iso3, u, v) ==
    LET l == Lambda2(mode)
        dist == g.distance_nm[{u, v}]
        piracy2  == g.attr[u].piracy_risk + g.attr[v].piracy_risk
        weather2 == g.attr[u].weather_risk + g.attr[v].weather_risk
        depth2   == g.attr[u].depth_penalty + g.attr[v].depth_penalty
        traffic2 == TrafficOf(g, u) + TrafficOf(g, v)
        geo2     == geopolitical_node_penalty(g, vessel_iso3, u)
                    + geopolitical_node_penalty(g, vessel_iso3, v)
    IN  4 * dist + l.p * piracy2 + l.w * weather2 + l.d * depth2
        + l.t * traffic2 + l.geo * geo2

\* The adjacency of a node in the order build_grid_graph creates it: the edges
\* added from the earlier neighbours (south, west), then its own (north, east).
AdjSeq(g, v) ==
    SelectSeq(<< <<v[1] - GRID_LAT_STEP, v[2]>>, <<v[1], v[2] - GRID_LON_STEP>>,
                 <<v[1] + GRID_LAT_STEP, v[2]>>, <<v[1], v[2] + GRID_LON_STEP>> >>,
              LAMBDA u : {v, u} \in g.edges)

RECURSIVE Relax(_, _, _, _, _, _, _)
\* Dijkstra's relaxation of the edges out of the node v just settled.
Relax(g, mode, iso, v, nbrs, i, st) ==
    IF i > Len(nbrs) THEN st
    ELSE LET u == nbrs[i]
             vu_dist == st.dist[v] + weight(g, mode, iso, v, u)
         IN  IF u \in DOMAIN st.dist
             THEN Relax(g, mode, iso, v, nbrs, i + 1, st)
             ELSE IF u \notin DOMAIN st.seen \/ vu_dist < st.seen[u]
             THEN Relax(g, mode, iso, v, nbrs, i + 1,
                    [st EXCEPT !.seen = (u :> vu_dist) @@ @,
                               !.fringe = @ \cup {<<vu_dist, st.c, u>>},
                               !.c = @ + 1,
                               !.paths = (u :> Append(st.paths[v], u)) @@ @])
             ELSE Relax(g, mode, iso, v, nbrs, i + 1, st)

RECURSIVE DijkstraLoop(_, _, _, _, _)
\* Dijkstra's main loop: pop the fringe entry of least (distance, insertion
\* count), settle its node, stop at the target.
DijkstraLoop(g, mode, iso, target, st) ==
    IF st.fringe = {} THEN st
    ELSE LET e == CHOOSE x \in st.fringe :
                    \A y \in st.fringe : x[1] < y[1] \/ (x[1] = y[1] /\ x[2] <= y[2])
             v == e[3]
             st1 == [st EXCEPT !.fringe = @ \ {e}]
         IN  IF v \in DOMAIN st.dist
             THEN DijkstraLoop(g, mode, iso, target, st1)
             ELSE LET st2 == [st1 EXCEPT !.dist = (v :> e[1]) @@ @]
                  IN  IF v = target THEN st2
                      ELSE DijkstraLoop(g, mode, iso, target,
                                        Relax(g, mode, iso, v, AdjSeq(g, v), 1, st2))

\* A faulty variant of shortest_path: the weight function of the fast mode is
\* used whatever the requested mode.
shortest_path_fast_only(g, origin_node, dest_node, mode, iso) ==
    IF origin_node \notin g.nodes \/ dest_node \notin g.nodes
    THEN [raised |-> "NodeNotFound", path |-> <<>>]
    ELSE LET st == DijkstraLoop(g, "fast", iso, dest_node,
                      [dist |-> <<>>, seen |-> (origin_node :> 0),
                       fringe |-> {<<0, 0, origin_node>>}, c |-> 1,
                       paths |-> (origin_node :> <<origin_node>>)])
         IN  IF dest_node \in DOMAIN st.dist
             THEN [raised |-> "none", path |-> st.paths[dest_node]]
             ELSE [raised |-> "NetworkXNoPath", path |-> <<>>]

\* nx.shortest_path(G, origin_node, dest_node, weight=weight_fn): the path, or
\* the exception raised (NodeNotFound, NetworkXNoPath).
shortest_path(g, origin_node, dest_node, mode, iso) ==
    IF origin_node \notin g.nodes \/ dest_node \notin g.nodes
    THEN [raised |-> "NodeNotFound", path |-> <<>>]
    ELSE LET st == DijkstraLoop(g, mode, iso, dest_node,
                      [dist |-> <<>>, seen |-> (origin_node :> 0),
                       fringe |-> {<<0, 0, origin_node>>}, c |-> 1,
                       paths |-> (origin_node :> <<origin_node>>)])
         IN  IF dest_node \in DOMAIN st.dist
             THEN [raised |-> "none", path |-> st.paths[dest_node]]
             ELSE [raised |-> "NetworkXNoPath", path |-> <<>>]

\* A quotient of two integers (a float of the program), kept exact.
Frac(num, den) == [num |-> num, den |-> den]
FracZero == Frac(0, 1)

default_speed_knots == 20

\* node_geopolitical_penalty of compute_route
node_geopolitical_penalty(g, vessel_iso3, n) ==
    IF vessel_iso3 = NoIso THEN g.attr[n].geo_base_risk
    ELSE g.attr[n].geo_base_risk
         + (IF vessel_iso3 \in Flags THEN g.attr[n].geo_target_flags[vessel_iso3] ELSE 0)

\* sorted() over the zone ids of the configuration
ZoneIdsSorted == <<"hormuz", "red_sea">>

\* get_zone_metadata: zone_id -> notes
ZoneNotes(zid) ==
    LET k == CHOOSE j \in DOMAIN geopolitics_polygons : geopolitics_polygons[j].zone_id = zid
    IN  geopolitics_polygons[k].notes

\* The accumulators of compute_route before the loop over path_nodes.  The
\* length-weighted sums hold twice the program's values (endpoint sums, not
\* endpoint averages).
WalkStart ==
    [coordinates |-> <<>>, segments |-> <<>>, total_distance_nm |-> 0,
     sum_piracy_len |-> 0, sum_weather_len |-> 0, sum_depth_len |-> 0,
     sum_traffic_len |-> 0, sum_geo_len |-> 0, visited_geo_zones |-> {}]

RECURSIVE Walk_unweighted(_, _, _, _, _)
\* A faulty variant of Walk: the risk sums add the averaged value of each
\* segment without multiplying it by the length of the segment.
Walk_unweighted(g, iso, path_nodes, idx, acc) ==
    IF idx > Len(path_nodes) THEN acc
    ELSE LET node_id == path_nodes[idx]
             node_data == g.attr[node_id]
             acc1 == [acc EXCEPT
                        !.coordinates = Append(@, <<node_data.lat, node_data.lon>>),
                        !.visited_geo_zones = @ \cup SeqToSet(node_data.geo_zones)]
         IN  IF idx = 1 THEN Walk_unweighted(g, iso, path_nodes, idx + 1, acc1)
             ELSE LET prev_id == path_nodes[idx - 1]
                      prev_data == g.attr[prev_id]
                      segment_distance_nm == g.distance_nm[{prev_id, node_id}]
                      piracy2 == prev_data.piracy_risk + node_data.piracy_risk
                      weather2 == prev_data.weather_risk + node_data.weather_risk
                      depth2 == prev_data.depth_penalty + node_data.depth_penalty
                      traffic2 == TrafficOf(g, prev_id) + TrafficOf(g, node_id)
                      geo2 == node_geopolitical_penalty(g, iso, prev_id)
                              + node_geopolitical_penalty(g, iso, node_id)
                      segment ==
                        [from |-> <<prev_data.lat, prev_data.lon>>,
                         to |-> <<node_data.lat, node_data.lon>>,
                         distanceNm |-> segment_distance_nm,
                         weatherRisk |-> Frac(weather2, 2),
                         piracyRisk |-> Frac(piracy2, 2),
                         depthPenalty |-> Frac(depth2, 2)]
                  IN  Walk_unweighted(g, iso, path_nodes, idx + 1,
                        [acc1 EXCEPT
                            !.total_distance_nm = @ + segment_distance_nm,
                            !.sum_piracy_len = @ + piracy2,
                            !.sum_weather_len = @ + weather2,
                            !.sum_depth_len = @ + depth2,
                            !.sum_traffic_len = @ + traffic2,
                            !.sum_geo_len = @ + geo2,
                            !.segments = Append(@, segment)])

RECURSIVE Walk_late_append(_, _, _, _, _)
\* A faulty variant of Walk: the coordinate of a node is appended after the
\* test for the first node, so that the first node has no coordinate.
Walk_late_append(g, iso, path_nodes, idx, acc) ==
    IF idx > Len(path_nodes) THEN acc
    ELSE LET node_id == path_nodes[idx]
             node_data == g.attr[node_id]
             acc1 == [acc EXCEPT
                        !.visited_geo_zones = @ \cup SeqToSet(node_data.geo_zones)]
         IN  IF idx = 1 THEN Walk_late_append(g, iso, path_nodes, idx + 1, acc1)
             ELSE LET prev_id == path_nodes[idx - 1]
                      prev_data == g.attr[prev_id]
                      segment_distance_nm == g.distance_nm[{prev_id, node_id}]
                      piracy2 == prev_data.piracy_risk + node_data.piracy_risk
                      weather2 == prev_data.weather_risk + node_data.weather_risk
                      depth2 == prev_data.depth_penalty + node_data.depth_penalty
                      traffic2 == TrafficOf(g, prev_id) + TrafficOf(g, node_id)
                      geo2 == node_geopolitical_penalty(g, iso, prev_id)
                              + node_geopolitical_penalty(g, iso, node_id)
                      segment ==
                        [from |-> <<prev_data.lat, prev_data.lon>>,
                         to |-> <<node_data.lat, node_data.lon>>,
                         distanceNm |-> segment_distance_nm,
                         weatherRisk |-> Frac(weather2, 2),
                         piracyRisk |-> Frac(piracy2, 2),
                         depthPenalty |-> Frac(depth2, 2)]
                  IN  Walk_late_append(g, iso, path_nodes, idx + 1,
                        [acc1 EXCEPT
                            !.coordinates = Append(@, <<node_data.lat, node_data.lon>>),
                            !.total_distance_nm = @ + segment_distance_nm,
                            !.sum_piracy_len = @ + piracy2 * segment_distance_nm,
                            !.sum_weather_len = @ + weather2 * segment_distance_nm,
                            !.sum_depth_len = @ + depth2 * segment_distance_nm,
                            !.sum_traffic_len = @ + traffic2 * segment_distance_nm,
                            !.sum_geo_len = @ + geo2 * segment_distance_nm,
                            !.segments = Append(@, segment)])

RECURSIVE Walk(_, _, _, _, _)
\* The loop of compute_route over path_nodes[idx..].
Walk(g, iso, path_nodes, idx, acc) ==
    IF idx > Len(path_nodes) THEN acc
    ELSE LET node_id == path_nodes[idx]
             node_data == g.attr[node_id]
             acc1 == [acc EXCEPT
                        !.coordinates = Append(@, <<node_data.lat, node_data.lon>>),
                        !.visited_geo_zones = @ \cup SeqToSet(node_data.geo_zones)]
         IN  IF idx = 1 THEN Walk(g, iso, path_nodes, idx + 1, acc1)
             ELSE LET prev_id == path_nodes[idx - 1]
                      prev_data == g.attr[prev_id]
                      segment_distance_nm == g.distance_nm[{prev_id, node_id}]
                      piracy2 == prev_data.piracy_risk + node_data.piracy_risk
                      weather2 == prev_data.weather_risk + node_data.weather_risk
                      depth2 == prev_data.depth_penalty + node_data.depth_penalty
                      traffic2 == TrafficOf(g, prev_id) + TrafficOf(g, node_id)
                      geo2 == node_geopolitical_penalty(g, iso, prev_id)
                              + node_geopolitical_penalty(g, iso, node_id)
                      segment ==
                        [from |-> <<prev_data.lat, prev_data.lon>>,
                         to |-> <<node_data.lat, node_data.lon>>,
                         distanceNm |-> segment_distance_nm,
                         weatherRisk |-> Frac(weather2, 2),
                         piracyRisk |-> Frac(piracy2, 2),
                         depthPenalty |-> Frac(depth2, 2)]
                  IN  Walk(g, iso, path_nodes, idx + 1,
                        [acc1 EXCEPT
                            !.total_distance_nm = @ + segment_distance_nm,
                            !.sum_piracy_len = @ + piracy2 * segment_distance_nm,
                            !.sum_weather_len = @ + weather2 * segment_distance_nm,
                            !.sum_depth_len = @ + depth2 * segment_distance_nm,
                            !.sum_traffic_len = @ + traffic2 * segment_distance_nm,
                            !.sum_geo_len = @ + geo2 * segment_distance_nm,
                            !.segments = Append(@, segment)])

\* A faulty variant of SummaryAverage: the sum is divided by the total distance
\* whatever it is.
SummaryAverage_unguarded(sum_len2, total_distance_nm) ==
    Frac(sum_len2, 2 * total_distance_nm)

\* avg = sum_len / total_distance_nm if total_distance_nm > 0 else 0.0
SummaryAverage(sum_len2, total_distance_nm) ==
    IF total_distance_nm > 0 THEN Frac(sum_len2, 2 * total_distance_nm) ELSE FracZero

\* The route alerts: one per visited zone id known to the configuration, in
\* sorted order of the ids.
RouteAlerts(visited_geo_zones) ==
    LET ids == SelectSeq(ZoneIdsSorted, LAMBDA z : z \in visited_geo_zones)
    IN  [k \in DOMAIN ids |-> [zone |-> ids[k], notes |-> ZoneNotes(ids[k])]]

\* compute_route: the RouteResponse, or the exception raised
compute_route(g, route_request) ==
    LET o == resolve_origin_or_destination(route_request.origin)
        d == resolve_origin_or_destination(route_request.destination)
    IN  IF o.raised # "none" THEN [raised |-> o.raised, message |-> o.message]
        ELSE IF d.raised # "none" THEN [raised |-> d.raised, message |-> d.message]
        ELSE
        LET origin_node == find_closest_node(g, o.lat, o.lon)
            dest_node == find_closest_node(g, d.lat, d.lon)
            vessel_iso3 == infer_vessel_iso3(route_request)
            sp == shortest_path(g, origin_node, dest_node, route_request.mode, vessel_iso3)
        IN  IF sp.raised # "none" THEN [raised |-> sp.raised, message |-> "No path"]
            ELSE
            LET w == Walk(g, vessel_iso3, sp.path, 1, WalkStart)
                total == w.total_distance_nm
            IN  [raised |-> "none",
                 status |-> "ok",
                 origin_node |-> origin_node,
                 dest_node |-> dest_node,
                 vessel_iso3 |-> vessel_iso3,
                 path_nodes |-> sp.path,
                 summary |->
                    [mode |-> route_request.mode,
                     totalDistanceNm |-> total,
                     estimatedDurationHours |-> Frac(total, default_speed_knots),
                     totalWeatherRisk |-> SummaryAverage(w.sum_weather_len, total),
                     totalPiracyRisk |-> SummaryAverage(w.sum_piracy_len, total),
                     totalDepthPenalty |-> SummaryAverage(w.sum_depth_len, total),
                     totalTrafficRisk |-> SummaryAverage(w.sum_traffic_len, total),
                     totalGeopoliticalRisk |-> SummaryAverage(w.sum_geo_len, total)],
                 path |-> [coordinates |-> w.coordinates, segments |-> w.segments],
                 route_alerts |-> RouteAlerts(w.visited_geo_zones)]

----------------------------------------------------------------------------
(* main.py: the /route handler *)

\* A faulty variant of route: every exception of compute_route is answered as
\* an invalid request.
route_all_invalid(g, request) ==
    IF ~g.built
    THEN [status |-> "error", code |-> 500, error |-> "GRAPH_NOT_LOADED",
          request |-> request]
    ELSE LET result == compute_route(g, request)
         IN  IF result.raised = "none"
             THEN [status |-> "ok", code |-> 200, error |-> "", request |-> request,
                   result |-> result]
             ELSE [status |-> "error", code |-> 400, error |-> "INVALID_REQUEST",
                   request |-> request, raised |-> result.raised]

route(g, request) ==
    IF ~g.built
    THEN [status |-> "error", code |-> 500, error |-> "GRAPH_NOT_LOADED",
          request |-> request]
    ELSE LET result == compute_route(g, request)
         IN  IF result.raised = "none"
             THEN [status |-> "ok", code |-> 200, error |-> "", request |-> request,
                   result |-> result]
             ELSE IF result.raised = "ValueError"
             THEN [status |-> "error", code |-> 400, error |-> "INVALID_REQUEST",
                   request |-> request, raised |-> result.raised,
                   message |-> result.message]
             ELSE [status |-> "error", code |-> 500, error |-> "ROUTING_ERROR",
                   request |-> request, raised |-> result.raised]

----------------------------------------------------------------------------
(* safety_layer.py *)

\* _cell_for_latlon of safety_layer.py
SafetyCell(lat, lon) ==
    <<PyRound(lat, GRID_LAT_STEP) * GRID_LAT_STEP,
      PyRound(lon, GRID_LON_STEP) * GRID_LON_STEP>>

\* risk_raw of a node, doubled: piracy*3 + geo*3 + traffic*2 + depth*2 + weather*0.5
risk_raw(g, n) ==
    6 * g.attr[n].piracy_risk + 6 * g.attr[n].geo_base_risk
    + 4 * TrafficOf(g, n) + 4 * g.attr[n].depth_penalty + g.attr[n].weather_risk

RECURSIVE CellSeqOf(_, _, _, _)
\* The keys of buckets in insertion order: the cells of the nodes in enumeration
\* order, each once.
CellSeqOf(g, nodes, i, acc) ==
    IF i > Len(nodes) THEN acc
    ELSE LET cell == SafetyCell(g.attr[nodes[i]].lat, g.attr[nodes[i]].lon)
         IN  CellSeqOf(g, nodes, i + 1,
                       IF cell \in SeqToSet(acc) THEN acc ELSE Append(acc, cell))

RECURSIVE SumRaw(_, _)
\* sum(vals) over the nodes of one bucket
SumRaw(g, S) ==
    IF S = {} THEN 0
    ELSE LET x == CHOOSE y \in S : TRUE
         IN  risk_raw(g, x) + SumRaw(g, S \ {x})

\* cell_scores[cell] = sum(vals) / len(vals), as an exact quotient
CellScore(g, cell) ==
    LET members == {n \in g.nodes : SafetyCell(g.attr[n].lat, g.attr[n].lon) = cell}
    IN  Frac(SumRaw(g, members), Cardinality(members))

FracLess(a, b) == a.num * b.den < b.num * a.den
FracEq(a, b) == a.num * b.den = b.num * a.den

\* A faulty variant of Severity: the normalised score is truncated, not rounded.
Severity_truncates(score, min_score, max_score) ==
    LET num == 4 * (score.num * min_score.den - min_score.num * score.den) * max_score.den
        den == score.den * (max_score.num * min_score.den - min_score.num * max_score.den)
        sev == 1 + (num \div den)
    IN  IF sev < 1 THEN 1 ELSE IF sev > 5 THEN 5 ELSE sev

\* A faulty variant of Severity: the normalised score is spread over five steps
\* above 1 and the result is not clamped.
Severity_five_steps(score, min_score, max_score) ==
    LET num == 5 * (score.num * min_score.den - min_score.num * score.den) * max_score.den
        den == score.den * (max_score.num * min_score.den - min_score.num * max_score.den)
    IN  1 + PyRound(num, den)

\* sev = 1 + int(round(norm * 4.0)) with norm = (score - min_score) / span,
\* clamped to 1..5
Severity(score, min_score, max_score) ==
    LET num == 4 * (score.num * min_score.den - min_score.num * score.den) * max_score.den
        den == score.den * (max_score.num * min_score.den - min_score.num * max_score.den)
        sev == 1 + PyRound(num, den)
    IN  IF sev < 1 THEN 1 ELSE IF sev > 5 THEN 5 ELSE sev

\* The severity given to every cell when max_score <= min_score
UniformSeverity == 3

build_safety_layer_from_graph(g) ==
    LET cells == CellSeqOf(g, NodeSeq(g), 1, <<>>)
        scores == [k \in DOMAIN cells |-> CellScore(g, cells[k])]
    IN  IF cells = <<>> THEN [built |-> TRUE, features |-> <<>>]
        ELSE
        LET kmax == CHOOSE k \in DOMAIN cells :
                        \A j \in DOMAIN cells : ~FracLess(scores[k], scores[j])
            kmin == CHOOSE k \in DOMAIN cells :
                        \A j \in DOMAIN cells : ~FracLess(scores[j], scores[k])
            max_score == scores[kmax]
            min_score == scores[kmin]
        IN  [built |-> TRUE,
             features |->
                [k \in DOMAIN cells |->
                    [cell |-> cells[k],
                     score |-> scores[k],
                     severity |->
                        IF ~FracLess(min_score, max_score) THEN UniformSeverity
                        ELSE Severity(scores[k], min_score, max_score)]]]

----------------------------------------------------------------------------
(* The library-level state machine: the graph is built once, then the three   *)
(* refreshes are applied in any order, each drawing what its source answers.  *)

NoOp ==
    [op |-> "none", fetched |-> <<>>, stream |-> "none", cell_counts |-> <<>>,
     raised |-> FALSE]

\* The collection window and the receive timeout of the AIS loop, in units of
\* five seconds: duration_sec = 60.0 and wait_for(..., timeout=5.0).
duration_sec == 12
RecvTimeout == 1

\* Every clock reading beyond the window and one timeout behaves alike.
ClockCap == duration_sec + RecvTimeout + 1

NoResult == [returned |-> FALSE]
NoPosition == <<None, None>>

\* The collection coroutine before it is called.  latest and moved record what
\* the stream delivered: the position of the last report of each vessel from
\* inside the bounding box, and the vessels that changed traffic cell.
AisIdle ==
    [pc |-> "start", clock |-> 0, connection |-> "none",
     mmsi_to_cell |-> [v \in Vessels |-> NoCell],
     result |-> NoResult, ended |-> "running",
     latest |-> [v \in Vessels |-> NoPosition], moved |-> {}]

\* The startup sequence before it begins.
BootIdle == [pc |-> "idle", log |-> {}, pickle |-> FALSE]

\* No refresh loop is in flight: each loop's position in its node order, and the
\* upstream data it holds once started.
NoPasses ==
    [weather |-> [pc |-> "idle", at |-> 0, order |-> <<>>, fetched |-> <<>>],
     traffic |-> [pc |-> "idle", at |-> 0, order |-> <<>>, cell_counts |-> <<>>],
     geo     |-> [pc |-> "idle", at |-> 0, order |-> <<>>]]

NoResponse == [status |-> "none"]
NoLayer == [built |-> FALSE, features |-> <<>>]

Init ==
    /\ bathy \in SeaMaps
    /\ G = NoGraph
    /\ last = NoOp
    /\ refreshes = 0
    /\ response = NoResponse
    /\ safety = NoLayer
    /\ ais = AisIdle
    /\ boot = BootIdle
    /\ passes = NoPasses

Build ==
    /\ ~G.built
    /\ G' = build_grid_graph(bathy)
    /\ last' = [NoOp EXCEPT !.op = "build"]
    /\ UNCHANGED <<bathy, refreshes, response, safety, ais, boot, passes>>

RefreshWeather ==
    /\ G.built
    /\ refreshes < MaxRefreshes
    /\ \E fetched \in [WeatherCells(G) -> FetchOutcomes] :
        /\ G' = update_graph_weather(G, fetched)
        /\ last' = [NoOp EXCEPT !.op = "weather", !.fetched = fetched]
    /\ refreshes' = refreshes + 1
    /\ UNCHANGED <<bathy, response, safety, ais, boot, passes>>

RefreshTraffic ==
    /\ G.built
    /\ refreshes < MaxRefreshes
    /\ \E outcome \in TrafficOutcomes :
        /\ G' = ApplyTrafficSnapshot(G, outcome.cell_counts)
        /\ last' = [NoOp EXCEPT !.op = "traffic", !.stream = outcome.stream,
                                !.cell_counts = outcome.cell_counts]
    /\ refreshes' = refreshes + 1
    /\ UNCHANGED <<bathy, response, safety, ais, boot, passes>>

\* apply_geopolitics_to_graph raises before touching the graph when the
\* configuration file is missing.
RefreshGeo ==
    /\ G.built
    /\ refreshes < MaxRefreshes
    /\ \E config_exists \in BOOLEAN :
        /\ G' = IF config_exists THEN apply_geopolitics_to_graph(G) ELSE G
        /\ last' = [NoOp EXCEPT !.op = "geo", !.raised = ~config_exists]
    /\ refreshes' = refreshes + 1
    /\ UNCHANGED <<bathy, response, safety, ais, boot, passes>>

Next == Build \/ RefreshWeather \/ RefreshTraffic \/ RefreshGeo

Spec == Init /\ [][Next]_vars

----------------------------------------------------------------------------
(* The routing state machine: /route requests against a graph that was built  *)
(* and then refreshed (or not) by each of the three refreshes.                *)

\* What the weather source answers in the refresh before the requests: heavy
\* weather in the cells west of 31 E, calm elsewhere.
WestStorm(g) ==
    [c \in WeatherCells(g) |-> IF c[2] < 310 THEN <<6, 10>> ELSE <<2, 5>>]

\* The AIS snapshot of the refresh before the requests: every vessel reports
\* from the northern position.
NorthTraffic ==
    collect_traffic_snapshot(
        [api_key |-> TRUE, connects |-> TRUE,
         events |-> [k \in 1..MaxVessels |-> Report(k, 346, 310)]])

Overlay(g, wx, tr, geo) ==
    LET g1 == IF geo THEN apply_geopolitics_to_graph(g) ELSE g
        g2 == IF wx THEN update_graph_weather(g1, WestStorm(g1)) ELSE g1
    IN  IF tr THEN ApplyTrafficSnapshot(g2, NorthTraffic) ELSE g2

Coordinates(lat, lon) ==
    [type |-> "coordinates", portId |-> NoPort, latitude |-> lat, longitude |-> lon]
PortRef(pid) ==
    [type |-> "port", portId |-> pid, latitude |-> None, longitude |-> None]

\* Origins: the two ports, an unknown port, missing coordinates, and the points
\* of the western meridian of the window.  Destinations: an unknown port, a
\* missing longitude, and every lattice point of the window (land included).
Origins ==
    {PortRef("TZ1"), PortRef("AT1"), PortRef("ZZ9"), Coordinates(None, None)}
    \cup {Coordinates(lat, lon_range[1]) : lat \in lat_values}
Destinations ==
    {PortRef("ZZ9"), Coordinates(345, None)}
    \cup {Coordinates(p[1], p[2]) : p \in Lattice}

RouteRequests ==
    [origin : Origins, destination : Destinations, mode : Modes]

\* The graphs a process can hold after startup: built, then refreshed or not by
\* the geopolitics, weather and traffic refreshes.
LoadedGraphs(ds) ==
    {Overlay(build_grid_graph(ds), wx, tr, geo) :
        wx \in BOOLEAN, tr \in BOOLEAN, geo \in BOOLEAN}

InitRoute ==
    /\ bathy \in SeaMaps
    /\ G = NoGraph
    /\ last = NoOp
    /\ refreshes = 0
    /\ response = NoResponse
    /\ safety = NoLayer
    /\ ais = AisIdle
    /\ boot = BootIdle
    /\ passes = NoPasses

\* Startup as the router sees it: the graph is built and every refresh has run
\* or none has.
LoadGraph ==
    /\ ~G.built
    /\ response = NoResponse
    /\ \E refreshed \in BOOLEAN :
        G' = Overlay(build_grid_graph(bathy), refreshed, refreshed, refreshed)
    /\ last' = [NoOp EXCEPT !.op = "build"]
    /\ UNCHANGED <<bathy, refreshes, response, safety, ais, boot, passes>>

\* One request is served per behaviour: the handler only reads the graph.
Route ==
    /\ response = NoResponse
    /\ \E request \in RouteRequests : response' = route(G, request)
    /\ last' = [NoOp EXCEPT !.op = "route"]
    /\ UNCHANGED <<bathy, G, refreshes, safety, ais, boot, passes>>

NextRoute == LoadGraph \/ Route

SpecRoute == InitRoute /\ [][NextRoute]_vars

----------------------------------------------------------------------------
(* The safety-overlay state machine: the overlay is computed from a loaded    *)
(* graph.                                                                     *)

InitSafety ==
    /\ bathy \in SeaMaps
    /\ G \in LoadedGraphs(bathy)
    /\ last = NoOp
    /\ refreshes = 0
    /\ response = NoResponse
    /\ safety = NoLayer
    /\ ais = AisIdle
    /\ boot = BootIdle
    /\ passes = NoPasses

BuildSafetyLayer ==
    /\ ~safety.built
    /\ safety' = build_safety_layer_from_graph(G)
    /\ last' = [NoOp EXCEPT !.op = "safety"]
    /\ UNCHANGED <<bathy, G, refreshes, response, ais, boot, passes>>

NextSafety == BuildSafetyLayer

SpecSafety == InitSafety /\ [][NextSafety]_vars

----------------------------------------------------------------------------
(* The AIS collection coroutine, one step of _collect_traffic_snapshot_async  *)
(* at a time.                                                                 *)

\* The positions reports come from: two in one traffic cell, one in another,
\* and one north of the bounding box.
AisLoopPositions == AisPositions \cup {<<346, 311>>, <<351, 310>>}

\* What websocket.recv() can deliver: position reports, a report without a
\* latitude, and a message of another type.
OtherMessage == [kind |-> "other", mmsi |-> None, lat |-> None, lon |-> None]
AisLoopMessages ==
    {Report(v, p[1], p[2]) : v \in Vessels, p \in AisLoopPositions}
    \cup {Report(v, None, 310) : v \in Vessels}
    \cup {OtherMessage}

\* A faulty variant of DeadlinePassed: the window never closes.
DeadlinePassed_never(clock) == FALSE

\* time.time() - start_time > duration_sec
DeadlinePassed(clock) == clock > duration_sec

\* The report counts for the snapshot: it is a position report with all its
\* fields, from inside the bounding box.
InBox(msg) ==
    /\ msg.kind = "report"
    /\ msg.mmsi # None /\ msg.lat # None /\ msg.lon # None
    /\ msg.lat >= AIS_LAT_RANGE[1] /\ msg.lat <= AIS_LAT_RANGE[2]
    /\ msg.lon >= AIS_LON_RANGE[1] /\ msg.lon <= AIS_LON_RANGE[2]

AisUnchanged == UNCHANGED <<bathy, G, last, refreshes, response, safety, boot, passes>>

InitAis ==
    /\ bathy = SeaMap({}, FALSE)
    /\ G = NoGraph
    /\ last = NoOp
    /\ refreshes = 0
    /\ response = NoResponse
    /\ safety = NoLayer
    /\ ais = AisIdle
    /\ boot = BootIdle
    /\ passes = NoPasses

\* The call: without AISSTREAM_API_KEY the coroutine returns {} at once.
AisStart ==
    /\ ais.pc = "start"
    /\ \E api_key \in BOOLEAN :
        ais' = IF api_key
               THEN [ais EXCEPT !.pc = "connect"]
               ELSE [ais EXCEPT !.pc = "done", !.result = [returned |-> TRUE, cell_counts |-> <<>>],
                                !.ended = "no_key"]
    /\ AisUnchanged

\* websockets.connect and the subscription: an exception of either is caught by
\* the outer handler, which returns {}; the context manager closes a connection
\* that was opened.
AisConnect ==
    /\ ais.pc = "connect"
    /\ \E connects \in BOOLEAN, subscribes \in BOOLEAN :
        ais' = IF connects /\ subscribes
               THEN [ais EXCEPT !.pc = "loop", !.connection = "open"]
               ELSE [ais EXCEPT !.pc = "done",
                                !.connection = IF connects THEN "closed" ELSE "none",
                                !.result = [returned |-> TRUE, cell_counts |-> <<>>],
                                !.ended = "exception"]
    /\ AisUnchanged

\* The head of the while loop: break once the window has elapsed (leaving the
\* async with block closes the connection), else wait for a message.
AisCheckDeadline ==
    /\ ais.pc = "loop"
    /\ ais' = IF DeadlinePassed(ais.clock)
              THEN [ais EXCEPT !.pc = "count", !.connection = "closed"]
              ELSE [ais EXCEPT !.pc = "recv"]
    /\ AisUnchanged

\* A message arrives within the receive timeout and is processed.
AisReceive ==
    /\ ais.pc = "recv"
    /\ \E msg \in AisLoopMessages :
        ais' = [ais EXCEPT
                  !.pc = "loop",
                  !.mmsi_to_cell = CollectLoop(<<msg>>, 1, ais.mmsi_to_cell).mmsi_to_cell,
                  !.latest = IF InBox(msg)
                             THEN [ais.latest EXCEPT ![msg.mmsi] = <<msg.lat, msg.lon>>]
                             ELSE ais.latest,
                  !.moved = IF /\ InBox(msg)
                               /\ ais.latest[msg.mmsi] # NoPosition
                               /\ TrafficCell(ais.latest[msg.mmsi][1], ais.latest[msg.mmsi][2])
                                    # TrafficCell(msg.lat, msg.lon)
                            THEN ais.moved \cup {msg.mmsi}
                            ELSE ais.moved]
    /\ AisUnchanged

\* asyncio.TimeoutError after the receive timeout: continue.
AisTimeout ==
    /\ ais.pc = "recv"
    /\ ais' = [ais EXCEPT
                 !.pc = "loop",
                 !.clock = IF ais.clock + RecvTimeout > ClockCap THEN ClockCap
                           ELSE ais.clock + RecvTimeout]
    /\ AisUnchanged

\* A faulty variant of AisError: the handler returns the counts of the reports
\* gathered before the exception.
AisError_returns_partial ==
    /\ ais.pc = "recv"
    /\ ais' = [ais EXCEPT !.pc = "done", !.connection = "closed",
                          !.result = [returned |-> TRUE,
                                      cell_counts |-> CellCounts(ais.mmsi_to_cell)],
                          !.ended = "exception"]
    /\ AisUnchanged

\* A transport error or an undecodable message: the exception leaves the async
\* with block, which closes the connection, and the handler returns {}.
AisError ==
    /\ ais.pc = "recv"
    /\ ais' = [ais EXCEPT !.pc = "done", !.connection = "closed",
                          !.result = [returned |-> TRUE, cell_counts |-> <<>>],
                          !.ended = "exception"]
    /\ AisUnchanged

\* After the loop: the vessels per cell.
AisCount ==
    /\ ais.pc = "count"
    /\ ais' = [ais EXCEPT !.pc = "done",
                          !.result = [returned |-> TRUE,
                                      cell_counts |-> CellCounts(ais.mmsi_to_cell)],
                          !.ended = "window"]
    /\ AisUnchanged

\* The wall clock advances while the coroutine is in its loop.
AisTick ==
    /\ ais.pc \in {"loop", "recv"}
    /\ ais.clock < ClockCap
    /\ ais' = [ais EXCEPT !.clock = ais.clock + 1]
    /\ AisUnchanged

NextAis ==
    \/ AisStart
    \/ AisConnect
    \/ AisCheckDeadline
    \/ AisReceive
    \/ AisTimeout
    \/ AisError
    \/ AisCount
    \/ AisTick

SpecAis == InitAis /\ [][NextAis]_vars

\* The event loop runs every step of the coroutine that is ready, a receive ends
\* within its timeout, and time passes.
FairSpecAis ==
    /\ SpecAis
    /\ WF_vars(AisStart)
    /\ WF_vars(AisConnect)
    /\ WF_vars(AisCheckDeadline)
    /\ WF_vars(AisReceive \/ AisTimeout \/ AisError)
    /\ WF_vars(AisCount)
    /\ WF_vars(AisTick)

----------------------------------------------------------------------------
(* update_graph_traffic_from_ais: the collection, step by step, and then the  *)
(* snapshot written to a graph that holds no traffic_risk yet or the one of   *)
(* an earlier refresh.                                                        *)

InitAisRefresh ==
    /\ bathy = SeaMap({}, FALSE)
    /\ G \in {build_grid_graph(bathy),
              ApplyTrafficSnapshot(build_grid_graph(bathy), NorthTraffic)}
    /\ last = NoOp
    /\ refreshes = 0
    /\ response = NoResponse
    /\ safety = NoLayer
    /\ ais = AisIdle
    /\ boot = BootIdle
    /\ passes = NoPasses

\* The coroutine has returned its snapshot: the node loop of
\* update_graph_traffic_from_ais.
AisApply ==
    /\ ais.pc = "done"
    /\ last.op = "none"
    /\ G' = ApplyTrafficSnapshot(G, ais.result.cell_counts)
    /\ last' = [NoOp EXCEPT !.op = "traffic", !.stream = ais.ended,
                            !.cell_counts = ais.result.cell_counts]
    /\ UNCHANGED <<bathy, refreshes, response, safety, ais, boot, passes>>

SpecAisRefresh == InitAisRefresh /\ [][NextAis \/ AisApply]_vars

----------------------------------------------------------------------------
(* The startup sequence: init_app and startup_event of main.py, one stage at  *)
(* a time, then the /route handler.                                           *)

\* A faulty variant of Caught: the exception of a stage leaves the startup.
Caught_propagates(b, stage, raised, next) ==
    IF raised THEN [b EXCEPT !.pc = "aborted", !.log = b.log \cup {stage}]
    ELSE [b EXCEPT !.pc = next]

\* try: <stage> except Exception: print(...) -- the startup goes on to the next
\* stage whether the stage raised or not; the failure is only logged.
Caught(b, stage, raised, next) ==
    [b EXCEPT !.pc = next, !.log = IF raised THEN b.log \cup {stage} ELSE b.log]

\* The seas the startup is run on: open water, a shallow coast, one island, and
\* a wall of land that disconnects west from east.
BootMaps ==
    {SeaMap({}, FALSE), SeaMap({}, TRUE),
     SeaMap({<<lat_range[1], lon_range[1] + GRID_LON_STEP>>}, FALSE),
     SeaMap({<<lat, lon_range[1] + GRID_LON_STEP>> : lat \in lat_values}, FALSE)}

\* The requests sent after startup.
BootRequests ==
    [origin : {PortRef("TZ1"), Coordinates(lat_range[1], lon_range[1])},
     destination : {Coordinates(lat, lon_range[2]) : lat \in lat_values}
                   \cup {Coordinates(lat_range[2], lon_range[1])},
     mode : Modes]

BootUnchanged == UNCHANGED <<bathy, last, refreshes, ais, passes>>

InitStartup ==
    /\ bathy \in BootMaps
    /\ G = NoGraph
    /\ last = NoOp
    /\ refreshes = 0
    /\ response = NoResponse
    /\ safety = NoLayer
    /\ ais = AisIdle
    /\ boot = BootIdle
    /\ passes = NoPasses

\* init_app: the graph is loaded from its pickle, or built and saved; a build
\* whose data files cannot be read raises out of init_app.
BootLoadOrBuild ==
    /\ boot.pc = "idle"
    /\ \E pickle_exists \in BOOLEAN, sources_readable \in BOOLEAN :
        IF pickle_exists \/ sources_readable
        THEN /\ G' = build_grid_graph(bathy)
             /\ boot' = [boot EXCEPT !.pc = "geo", !.pickle = pickle_exists]
        ELSE /\ G' = G
             /\ boot' = [boot EXCEPT !.pc = "aborted", !.log = {"build"}]
    /\ UNCHANGED <<response, safety>>
    /\ BootUnchanged

\* init_app: load_geopolitics_config and apply_geopolitics_to_graph in a try.
BootGeo ==
    /\ boot.pc = "geo"
    /\ \E config_exists \in BOOLEAN :
        /\ G' = IF config_exists THEN apply_geopolitics_to_graph(G) ELSE G
        /\ boot' = Caught(boot, "geo", ~config_exists, "weather")
    /\ UNCHANGED <<response, safety>>
    /\ BootUnchanged

\* init_app: update_graph_weather and build_weather_risk_layer in a try; the
\* weather service answers for every cell or for none, and the layer may raise
\* after the graph was updated.
BootWeather ==
    /\ boot.pc = "weather"
    /\ \E reachable \in BOOLEAN, raised \in BOOLEAN :
        /\ G' = update_graph_weather(G,
                    IF reachable THEN WestStorm(G)
                    ELSE [c \in WeatherCells(G) |-> FetchFailed])
        /\ boot' = Caught(boot, "weather", raised, "traffic")
    /\ UNCHANGED <<response, safety>>
    /\ BootUnchanged

\* startup_event: update_graph_traffic_from_ais and build_traffic_layer_from_graph
\* in a try; the collection returns a snapshot or {}, and the layer may raise
\* after the graph was updated.
BootTraffic ==
    /\ boot.pc = "traffic"
    /\ \E cell_counts \in {<<>>, NorthTraffic}, raised \in BOOLEAN :
        /\ G' = ApplyTrafficSnapshot(G, cell_counts)
        /\ boot' = Caught(boot, "traffic", raised, "safety")
    /\ UNCHANGED <<response, safety>>
    /\ BootUnchanged

\* A faulty variant of BootSafety: the layer is built from the graph as it was
\* loaded or built, before the refreshes.
BootSafety_before_refreshes ==
    /\ boot.pc = "safety"
    /\ safety' = build_safety_layer_from_graph(build_grid_graph(bathy))
    /\ boot' = [boot EXCEPT !.pc = "ready"]
    /\ UNCHANGED <<G, response>>
    /\ BootUnchanged

\* startup_event: the safety layer is built from the graph as it is.
BootSafety ==
    /\ boot.pc = "safety"
    /\ safety' = build_safety_layer_from_graph(G)
    /\ boot' = [boot EXCEPT !.pc = "ready"]
    /\ UNCHANGED <<G, response>>
    /\ BootUnchanged

\* The application serves: one request is answered from the graph.
BootRoute ==
    /\ boot.pc = "ready"
    /\ response = NoResponse
    /\ \E request \in BootRequests : response' = route(G, request)
    /\ UNCHANGED <<G, safety, boot, passes>>
    /\ BootUnchanged

NextStartup ==
    \/ BootLoadOrBuild
    \/ BootGeo
    \/ BootWeather
    \/ BootTraffic
    \/ BootSafety
    \/ BootRoute

SpecStartup == InitStartup /\ [][NextStartup]_vars

\* The startup runs each of its stages in turn: none waits for anything but the
\* stage before it.  BootSafety is enabled exactly in the stage "safety" and
\* every step of it leaves that stage, so its weak fairness is stated on the
\* stage: the startup does not stay in it for ever.
FairSpecStartup ==
    /\ SpecStartup
    /\ WF_vars(BootLoadOrBuild)
    /\ WF_vars(BootGeo)
    /\ WF_vars(BootWeather)
    /\ WF_vars(BootTraffic)
    /\ []<>(boot.pc # "safety")

----------------------------------------------------------------------------
(* The refreshes on the seas of the startup: the build, then the three        *)
(* refreshes in any order and number, each drawing what its source answers.   *)

InitRefresh ==
    /\ bathy \in BootMaps
    /\ G = NoGraph
    /\ last = NoOp
    /\ refreshes = 0
    /\ response = NoResponse
    /\ safety = NoLayer
    /\ ais = AisIdle
    /\ boot = BootIdle
    /\ passes = NoPasses

SpecRefresh == InitRefresh /\ [][Next]_vars

----------------------------------------------------------------------------
(* The three refresh loops run node by node: each loop holds the upstream     *)
(* data it was started with and writes one node per step, in its own order,   *)
(* so that the loops can interleave in every way; a loop that is never        *)
(* started is a refresh that was skipped.                                     *)

\* The order in which update_graph_weather writes the nodes: cell by cell in
\* the order the cells were first met, and within a cell in enumeration order.
WeatherOrder(g) ==
    LET seq == NodeSeq(g)
        Index(n) == CHOOSE i \in 1..Len(seq) : seq[i] = n
        CellOf(n) == WeatherCell(g.attr[n].lat, g.attr[n].lon)
        CellFirst(n) == CHOOSE i \in 1..Len(seq) :
                            /\ CellOf(seq[i]) = CellOf(n)
                            /\ \A j \in 1..(i - 1) : CellOf(seq[j]) # CellOf(n)
        Earlier(m, n) == \/ CellFirst(m) < CellFirst(n)
                         \/ (CellFirst(m) = CellFirst(n) /\ Index(m) < Index(n))
    IN  [i \in 1..Len(seq) |->
            CHOOSE n \in g.nodes :
                Cardinality({m \in g.nodes : Earlier(m, n)}) = i - 1]

\* A faulty variant of WeatherNodeWrite: the node's record is written back
\* whole, with the traffic risk the build left.
WeatherNodeWrite_whole_record(g, n, fetched) ==
    LET cell == WeatherCell(g.attr[n].lat, g.attr[n].lon)
    IN  [g EXCEPT !.attr[n] =
            [@ EXCEPT !.weather_risk =
                          continuous_weather_penalty(fetched[cell][1], fetched[cell][2]),
                      !.traffic_risk = Absent]]

\* G.nodes[node_id]["weather_risk"] = penalty
WeatherNodeWrite(g, n, fetched) ==
    LET cell == WeatherCell(g.attr[n].lat, g.attr[n].lon)
    IN  [g EXCEPT !.attr[n].weather_risk =
            continuous_weather_penalty(fetched[cell][1], fetched[cell][2])]

\* One iteration of either loop of update_graph_traffic_from_ais.
TrafficNodeWrite(g, n, cell_counts) ==
    IF DOMAIN cell_counts = {}
    THEN IF g.attr[n].traffic_risk = Absent
         THEN [g EXCEPT !.attr[n].traffic_risk = 0]
         ELSE g
    ELSE [g EXCEPT !.attr[n].traffic_risk =
            vessel_count_to_risk(
                CountGet(cell_counts, TrafficCell(g.attr[n].lat, g.attr[n].lon)))]

\* One iteration of the node loop of apply_geopolitics_to_graph.
GeoNodeWrite(g, n) ==
    LET r == ApplyGeoFold(geopolitics_polygons, 1, g.attr[n].lat, g.attr[n].lon,
                          [base_max |-> 0, flags |-> NoFlags, zones |-> <<>>])
    IN  [g EXCEPT !.attr[n].geo_base_risk = r.base_max,
                  !.attr[n].geo_target_flags = r.flags,
                  !.attr[n].geo_zones = r.zones]

\* The position of a loop after it wrote the node at its position.
Advance(pass) ==
    [pass EXCEPT !.at = @ + 1,
                 !.pc = IF pass.at = Len(pass.order) THEN "done" ELSE "writing"]

PassUnchanged == UNCHANGED <<bathy, last, refreshes, response, safety, ais, boot>>

InitPasses ==
    /\ bathy \in BootMaps
    /\ G = build_grid_graph(bathy)
    /\ last = NoOp
    /\ refreshes = 0
    /\ response = NoResponse
    /\ safety = NoLayer
    /\ ais = AisIdle
    /\ boot = BootIdle
    /\ passes = NoPasses

\* What the sources answer to the loops: a storm in the west or every request
\* failed; every vessel in the north or no report at all.
PassFetches(g) == {WestStorm(g), [c \in WeatherCells(g) |-> FetchFailed]}
PassSnapshots == {NorthTraffic, <<>>}

\* update_graph_weather is called: what the weather source answers is fixed.
StartWeather ==
    /\ passes.weather.pc = "idle"
    /\ \E fetched \in PassFetches(G) :
        passes' = [passes EXCEPT !.weather =
                      [pc |-> "writing", at |-> 1, order |-> WeatherOrder(G),
                       fetched |-> fetched]]
    /\ UNCHANGED G
    /\ PassUnchanged

\* update_graph_traffic_from_ais has its snapshot.
StartTraffic ==
    /\ passes.traffic.pc = "idle"
    /\ \E cell_counts \in PassSnapshots :
        passes' = [passes EXCEPT !.traffic =
                      [pc |-> "writing", at |-> 1, order |-> NodeSeq(G),
                       cell_counts |-> cell_counts]]
    /\ UNCHANGED G
    /\ PassUnchanged

\* apply_geopolitics_to_graph has loaded its polygons.
StartGeo ==
    /\ passes.geo.pc = "idle"
    /\ passes' = [passes EXCEPT !.geo =
                      [pc |-> "writing", at |-> 1, order |-> NodeSeq(G)]]
    /\ UNCHANGED G
    /\ PassUnchanged

WeatherWrite ==
    /\ passes.weather.pc = "writing"
    /\ G' = WeatherNodeWrite(G, passes.weather.order[passes.weather.at],
                             passes.weather.fetched)
    /\ passes' = [passes EXCEPT !.weather = Advance(@)]
    /\ PassUnchanged

TrafficWrite ==
    /\ passes.traffic.pc = "writing"
    /\ G' = TrafficNodeWrite(G, passes.traffic.order[passes.traffic.at],
                             passes.traffic.cell_counts)
    /\ passes' = [passes EXCEPT !.traffic = Advance(@)]
    /\ PassUnchanged

GeoWrite ==
    /\ passes.geo.pc = "writing"
    /\ G' = GeoNodeWrite(G, passes.geo.order[passes.geo.at])
    /\ passes' = [passes EXCEPT !.geo = Advance(@)]
    /\ PassUnchanged

NextPasses ==
    \/ StartWeather \/ StartTraffic \/ StartGeo
    \/ WeatherWrite \/ TrafficWrite \/ GeoWrite

SpecPasses == InitPasses /\ [][NextPasses]_vars

----------------------------------------------------------------------------
(* The router in safe mode, on every graph a startup can leave behind: each   *)
(* refresh has run or has not.                                                *)

SafeRequests ==
    [origin : {PortRef("TZ1")} \cup {Coordinates(p[1], p[2]) : p \in Lattice},
     destination : {Coordinates(p[1], p[2]) : p \in Lattice},
     mode : {"safe"}]

RouteSafe ==
    /\ response = NoResponse
    /\ \E request \in SafeRequests : response' = route(G, request)
    /\ last' = [NoOp EXCEPT !.op = "route"]
    /\ UNCHANGED <<bathy, G, refreshes, safety, ais, boot, passes>>

NextSafeRoute == RouteSafe

SpecSafeRoute == InitSafety /\ [][NextSafeRoute]_vars

----------------------------------------------------------------------------
(* Properties of the router *)

RECURSIVE SimplePaths(_, _, _)
\* Every path of g without repeated nodes that extends prefix and ends at t.
SimplePaths(g, prefix, t) ==
    LET v == prefix[Len(prefix)]
    IN  IF v = t THEN {prefix}
        ELSE UNION {SimplePaths(g, Append(prefix, u), t) :
                        u \in {x \in g.nodes : {v, x} \in g.edges
                                               /\ x \notin SeqToSet(prefix)}}

RECURSIVE PathCost(_, _, _, _, _)
\* The summed edge cost of path p from its i-th node on.
PathCost(g, mode, iso, p, i) ==
    IF i >= Len(p) THEN 0
    ELSE weight(g, mode, iso, p[i], p[i + 1]) + PathCost(g, mode, iso, p, i + 1)

\* The request answered, resolved as compute_route resolves it.
Answered == response.status \in {"ok", "error"} /\ G.built
ReqOrigin == resolve_origin_or_destination(response.request.origin)
ReqDest == resolve_origin_or_destination(response.request.destination)
Resolved == ReqOrigin.raised = "none" /\ ReqDest.raised = "none"
SnapOrigin == find_closest_node(G, ReqOrigin.lat, ReqOrigin.lon)
SnapDest == find_closest_node(G, ReqDest.lat, ReqDest.lon)
Snapped == Resolved /\ SnapOrigin \in G.nodes /\ SnapDest \in G.nodes
ReqIso == infer_vessel_iso3(response.request)
ReqPaths == SimplePaths(G, <<SnapOrigin>>, SnapDest)

\* C1: when the snapped origin and destination are connected, compute_route
\* answers with a path that starts at the snapped origin, ends at the snapped
\* destination, steps only along edges of the graph, and whose summed cost under
\* the weight function of the requested mode is least among all paths between
\* the two nodes.
C1_PathIsCheapest ==
    (Answered /\ Snapped /\ ReqPaths # {}) =>
        /\ response.status = "ok"
        /\ LET p == response.result.path_nodes
               mode == response.request.mode
           IN  /\ Len(p) >= 1
               /\ p[1] = SnapOrigin
               /\ p[Len(p)] = SnapDest
               /\ \A i \in 1..(Len(p) - 1) : {p[i], p[i + 1]} \in G.edges
               /\ \A q \in ReqPaths :
                    PathCost(G, mode, ReqIso, p, 1) <= PathCost(G, mode, ReqIso, q, 1)

\* A route of several legs was returned although a path with fewer nautical
\* miles but a higher cost exists.
C1_Witness ==
    /\ Answered /\ Snapped /\ response.status = "ok"
    /\ Len(response.result.path_nodes) >= 3
    /\ \E q \in ReqPaths :
        /\ PathCost(G, "fast", NoIso, q, 1)
             < PathCost(G, "fast", NoIso, response.result.path_nodes, 1)
        /\ PathCost(G, response.request.mode, ReqIso, q, 1)
             > PathCost(G, response.request.mode, ReqIso, response.result.path_nodes, 1)

\* C2: when the snapped origin and destination lie in different connected
\* components, the request fails with the no-path exception, answered with an
\* error other than INVALID_REQUEST, and no route result is returned.
C2_NoPathIsRoutingError ==
    (Answered /\ Snapped /\ ReqPaths = {}) =>
        /\ response.status = "error"
        /\ response.raised = "NetworkXNoPath"
        /\ response.error # "INVALID_REQUEST"
        /\ "result" \notin DOMAIN response

\* A request between two components of a split sea was answered.
C2_Witness ==
    /\ Answered /\ Snapped /\ ReqPaths = {}
    /\ response.status = "error"
    /\ SnapOrigin # SnapDest

\* C3: the cost of an edge is the same in both directions, for every mode and
\* every vessel flag, known or not.
C3_WeightSymmetric ==
    G.built =>
        \A e \in G.edges :
            LET u == CHOOSE x \in e : TRUE
                v == CHOOSE x \in e : x # u
            IN  \A mode \in Modes : \A iso \in Flags \cup {NoIso, "ATL"} :
                    weight(G, mode, iso, u, v) = weight(G, mode, iso, v, u)

\* A route was computed over an edge whose two endpoints differ in piracy risk
\* and in flag-specific geopolitical risk.
C3_Witness ==
    /\ Answered /\ response.status = "ok"
    /\ \E i \in 1..(Len(response.result.path_nodes) - 1) :
        LET u == response.result.path_nodes[i]
            v == response.result.path_nodes[i + 1]
        IN  /\ G.attr[u].piracy_risk # G.attr[v].piracy_risk
            /\ geopolitical_node_penalty(G, "TZA", u) # geopolitical_node_penalty(G, "TZA", v)

----------------------------------------------------------------------------
(* Properties of the refreshes and of the build *)

\* A step of the given refresh.
RefreshStep(op) == last'.op = op /\ refreshes' = refreshes + 1

\* C4: a weather refresh leaves the weather_risk of every node whose weather
\* cell could not be fetched at the value it had before the refresh.
C4_FailedFetchKeepsWeather ==
    [][RefreshStep("weather") =>
        \A n \in G.nodes :
            last'.fetched[WeatherCell(G.attr[n].lat, G.attr[n].lon)] = FetchFailed
                => G'.attr[n].weather_risk = G.attr[n].weather_risk]_vars

\* The collections that could not be opened or yielded no data.
NoData == {"no_key", "connect_failed", "silent"}

\* C5: a traffic refresh whose stream cannot be opened or yields no data does
\* not raise, gives traffic_risk 0 to the nodes that have none, and changes
\* nothing else.
C5_NoDataKeepsTraffic ==
    [][(RefreshStep("traffic") /\ last'.stream \in NoData) =>
        /\ ~last'.raised
        /\ G'.nodes = G.nodes
        /\ \A n \in G.nodes :
            G'.attr[n] = IF G.attr[n].traffic_risk = Absent
                         THEN [G.attr[n] EXCEPT !.traffic_risk = 0]
                         ELSE G.attr[n]]_vars

\* A refresh without data ran on a graph holding a positive traffic_risk from an
\* earlier refresh.
C5_Witness ==
    /\ last.op = "traffic" /\ last.stream \in NoData
    /\ \E n \in G.nodes : G.attr[n].traffic_risk >= 1

\* C6: no refresh, whichever it is and whatever ran before it, changes the node
\* set, the edge set or the distance_nm of an edge.
C6_RefreshKeepsTopology ==
    [][G.built =>
        /\ G'.nodes = G.nodes
        /\ G'.edges = G.edges
        /\ G'.distance_nm = G.distance_nm]_vars

\* Refreshes have run as often as the bound allows and have changed the
\* attributes of a graph that has edges.
C6_Witness ==
    /\ refreshes = MaxRefreshes
    /\ G.edges # {}
    /\ G.attr # build_grid_graph(bathy).attr
    /\ last.op \in {"weather", "traffic", "geo"}

\* C7: a lattice point of the window is a node exactly when the bathymetry does
\* not classify it as land, and no returned route has a land point among its
\* coordinates.
C7_NodesAreNotLand ==
    G.built =>
        /\ \A p \in Lattice : NodeId(p[1], p[2]) \in G.nodes <=> ~is_land(bathy, p[1], p[2])
        /\ response.status = "ok" =>
            \A k \in DOMAIN response.result.path.coordinates :
                LET c == response.result.path.coordinates[k]
                IN  c \in Lattice /\ ~is_land(bathy, c[1], c[2])

\* A route of several legs was returned that passes next to a land point.
C7_Witness ==
    /\ G.built /\ response.status = "ok"
    /\ Len(response.result.path_nodes) >= 3
    /\ \E k \in DOMAIN response.result.path_nodes :
        \E q \in neighbors(response.result.path_nodes[k][1], response.result.path_nodes[k][2]) :
            q \in Lattice /\ is_land(bathy, q[1], q[2])

\* Two lattice points one step apart along exactly one axis.
FourNeighbors(p, q) ==
    \/ Abs(p[1] - q[1]) = GRID_LAT_STEP /\ p[2] = q[2]
    \/ p[1] = q[1] /\ Abs(p[2] - q[2]) = GRID_LON_STEP

\* C8: two lattice points are joined by an edge exactly when both are nodes and
\* they are one step apart along exactly one axis; every edge joins two nodes.
C8_EdgesAreFourNeighbors ==
    G.built =>
        /\ \A p \in Lattice : \A q \in Lattice \ {p} :
            {NodeId(p[1], p[2]), NodeId(q[1], q[2])} \in G.edges
                <=> /\ NodeId(p[1], p[2]) \in G.nodes
                    /\ NodeId(q[1], q[2]) \in G.nodes
                    /\ FourNeighbors(p, q)
        /\ \A e \in G.edges : e \subseteq G.nodes /\ Cardinality(e) = 2

\* A graph was built in which a node has a neighbour that is a node, a
\* neighbour that is land and a diagonal neighbour that is a node.
C8_Witness ==
    /\ G.built /\ last.op = "build"
    /\ \E p \in G.nodes :
        /\ \E q \in neighbors(p[1], p[2]) : q \in G.nodes
        /\ \E q \in neighbors(p[1], p[2]) : q \in Lattice /\ is_land(bathy, q[1], q[2])
        /\ \E q \in G.nodes : Abs(p[1] - q[1]) = GRID_LAT_STEP /\ Abs(p[2] - q[2]) = GRID_LON_STEP

----------------------------------------------------------------------------
(* Properties of the safety overlay and of the route summary *)

\* The score of the cell of the k-th feature, computed from the graph.
FeatureScore(k) == CellScore(G, safety.features[k].cell)

\* Every cell of the overlay has the same score.
UniformScores ==
    \A i \in DOMAIN safety.features : \A j \in DOMAIN safety.features :
        FracEq(FeatureScore(i), FeatureScore(j))

\* C9: every feature of the safety overlay has a severity among 1, 2, 3, 4, 5,
\* and when all cell scores are equal, a single cell included, every feature
\* has severity 3.
C9_SeverityRange ==
    safety.built =>
        \A k \in DOMAIN safety.features :
            /\ safety.features[k].severity \in 1..5
            /\ UniformScores => safety.features[k].severity = 3

\* An overlay of several cells was built from a graph whose cells all have the
\* same score.
C9_Witness ==
    /\ safety.built
    /\ Len(safety.features) >= 2
    /\ UniformScores

\* An overlay was built whose severities span the whole range, with a cell
\* strictly inside it.
C9_Spread ==
    /\ safety.built
    /\ \E i, j, k \in DOMAIN safety.features :
        /\ safety.features[i].severity = 1
        /\ safety.features[j].severity = 5
        /\ safety.features[k].severity \in 2..4

\* An overlay was built from a graph with a single node.
C9_SingleCell == safety.built /\ Len(safety.features) = 1

RECURSIVE SumSeq(_, _)
\* The sum of the first k elements of a sequence of numbers.
SumSeq(sq, k) == IF k = 0 THEN 0 ELSE sq[k] + SumSeq(sq, k - 1)

\* The route returned and, per segment, its length and twice its averaged
\* value of each risk: from the segments returned for the risks they carry,
\* from the attributes of the two endpoints for the others.
Res == response.result
SegCount == Len(Res.path.segments)
SegDist == [k \in 1..SegCount |-> Res.path.segments[k].distanceNm]
SegTwice(f) ==
    [k \in 1..SegCount |->
        CASE f = "piracy" -> (2 * Res.path.segments[k].piracyRisk.num)
                                \div Res.path.segments[k].piracyRisk.den
          [] f = "weather" -> (2 * Res.path.segments[k].weatherRisk.num)
                                \div Res.path.segments[k].weatherRisk.den
          [] f = "depth" -> (2 * Res.path.segments[k].depthPenalty.num)
                                \div Res.path.segments[k].depthPenalty.den
          [] f = "traffic" -> TrafficOf(G, Res.path_nodes[k])
                                + TrafficOf(G, Res.path_nodes[k + 1])
          [] f = "geo" -> node_geopolitical_penalty(G, Res.vessel_iso3, Res.path_nodes[k])
                          + node_geopolitical_penalty(G, Res.vessel_iso3, Res.path_nodes[k + 1])]
SummaryOf(f) ==
    CASE f = "piracy" -> Res.summary.totalPiracyRisk
      [] f = "weather" -> Res.summary.totalWeatherRisk
      [] f = "depth" -> Res.summary.totalDepthPenalty
      [] f = "traffic" -> Res.summary.totalTrafficRisk
      [] f = "geo" -> Res.summary.totalGeopoliticalRisk
RiskNames == {"piracy", "weather", "depth", "traffic", "geo"}

\* Twice the sum over the segments of averaged value times length.
WeightedTwice(f) ==
    SumSeq([k \in 1..SegCount |-> SegTwice(f)[k] * SegDist[k]], SegCount)

\* C10: for each of the five risks, the summary value times totalDistanceNm
\* equals the sum over the segments of the segment's averaged value times the
\* segment's distanceNm.
C10_SummaryIsDistanceWeighted ==
    response.status = "ok" =>
        /\ Res.summary.totalDistanceNm = SumSeq(SegDist, SegCount)
        /\ SegCount = Len(Res.path_nodes) - 1
        /\ \A f \in RiskNames :
            /\ SummaryOf(f).den > 0
            /\ 2 * SummaryOf(f).num * Res.summary.totalDistanceNm
                 = SummaryOf(f).den * WeightedTwice(f)

\* A route was returned whose piracy summary differs from the arithmetic mean
\* of the averaged piracy values of its segments.
C10_Witness ==
    /\ response.status = "ok"
    /\ SegCount >= 2
    /\ WeightedTwice("piracy") * SegCount
         # Res.summary.totalDistanceNm * SumSeq(SegTwice("piracy"), SegCount)

----------------------------------------------------------------------------
(* Properties of the shape of a route *)

\* C11: a returned route has one coordinate per visited node, in visiting
\* order, and one segment fewer; segment i goes from coordinate i to coordinate
\* i + 1; totalDistanceNm is the sum of the segment distances and
\* estimatedDurationHours is totalDistanceNm / 20.
C11_RouteShape ==
    response.status = "ok" =>
        LET coords == Res.path.coordinates
            segs == Res.path.segments
        IN  /\ Len(coords) = Len(Res.path_nodes)
            /\ \A i \in DOMAIN coords :
                coords[i] = <<G.attr[Res.path_nodes[i]].lat, G.attr[Res.path_nodes[i]].lon>>
            /\ Len(segs) = Len(coords) - 1
            /\ \A i \in DOMAIN segs :
                /\ segs[i].from = coords[i]
                /\ segs[i].to = coords[i + 1]
                /\ segs[i].distanceNm = G.distance_nm[{Res.path_nodes[i], Res.path_nodes[i + 1]}]
            /\ Res.summary.totalDistanceNm = SumSeq(SegDist, SegCount)
            /\ Res.summary.estimatedDurationHours.den > 0
            /\ Res.summary.estimatedDurationHours.num * 20
                 = Res.summary.totalDistanceNm * Res.summary.estimatedDurationHours.den

\* A route of three legs or more was returned, with legs of both lengths.
C11_Witness ==
    /\ response.status = "ok"
    /\ SegCount >= 3
    /\ \E i, j \in 1..SegCount : SegDist[i] # SegDist[j]

----------------------------------------------------------------------------
(* Properties of the node attributes *)

\* Requests probing the summaries of a graph: from the port of a flagged
\* country to the far corner of the window, in each mode.
ProbeRequests ==
    [origin : {PortRef("TZ1")},
     destination : {Coordinates(lat_range[2], lon_range[2])},
     mode : Modes]

\* C12: after the build and any sequence of refreshes, failed or not, every
\* risk attribute of every node is non-negative, every edge costs at least its
\* distance in every mode and for every flag, and every summary risk value of
\* a route is non-negative.
C12_RisksNonNegative ==
    G.built =>
        /\ \A n \in G.nodes :
            /\ G.attr[n].piracy_risk >= 0
            /\ G.attr[n].weather_risk >= 0
            /\ G.attr[n].depth_penalty >= 0
            /\ G.attr[n].traffic_risk = Absent \/ G.attr[n].traffic_risk >= 0
            /\ G.attr[n].geo_base_risk >= 0
            /\ \A f \in Flags : G.attr[n].geo_target_flags[f] >= 0
        /\ \A e \in G.edges :
            LET u == CHOOSE x \in e : TRUE
                v == CHOOSE x \in e : x # u
            IN  \A mode \in Modes : \A iso \in Flags \cup {NoIso} :
                    weight(G, mode, iso, u, v) >= 4 * G.distance_nm[e]
        /\ \A req \in ProbeRequests :
            LET r == compute_route(G, req)
            IN  r.raised = "none" =>
                    \A x \in {r.summary.totalPiracyRisk, r.summary.totalWeatherRisk,
                              r.summary.totalDepthPenalty, r.summary.totalTrafficRisk,
                              r.summary.totalGeopoliticalRisk} :
                        x.den > 0 /\ x.num >= 0

\* A weather refresh in which one cell failed and another reported a storm ran
\* on a graph holding traffic from an earlier refresh.
C12_Witness ==
    /\ last.op = "weather"
    /\ \E c \in DOMAIN last.fetched : last.fetched[c] = FetchFailed
    /\ \E n \in G.nodes : G.attr[n].weather_risk > 2
    /\ \E n \in G.nodes : G.attr[n].traffic_risk >= 1

\* The zones of the configuration that cover a node, and the greatest element
\* of a set of numbers (0 for the empty set).
Covering(n) ==
    {k \in DOMAIN geopolitics_polygons :
        contains(geopolitics_polygons[k].poly, G.attr[n].lat, G.attr[n].lon)}
Greatest(S) == IF S = {} THEN 0 ELSE CHOOSE m \in S : \A x \in S : x <= m

\* C13: geo_base_risk of a node is the greatest base risk of the zones covering
\* it and, for each flag on its own, geo_target_flags holds the greatest extra
\* among them; a node no zone covers has base risk 0 and no extra.  The values
\* are those of the build, whether or not the geopolitics refresh has run, and
\* the refresh applied to the graph, freshly built or not, reproduces them.
C13_GeoIsMaxMerge ==
    G.built =>
        /\ \A n \in G.nodes :
            LET zones == Covering(n) IN
            /\ G.attr[n].geo_base_risk
                 = Greatest({geopolitics_polygons[k].base_risk : k \in zones})
            /\ \A f \in Flags :
                G.attr[n].geo_target_flags[f]
                  = Greatest({geopolitics_polygons[k].target_flags[f] : k \in zones})
            /\ zones = {} =>
                G.attr[n].geo_base_risk = 0 /\ G.attr[n].geo_target_flags = NoFlags
        /\ LET applied == apply_geopolitics_to_graph(G)
           IN  \A n \in G.nodes :
                /\ applied.attr[n].geo_base_risk = G.attr[n].geo_base_risk
                /\ applied.attr[n].geo_target_flags = G.attr[n].geo_target_flags

\* The geopolitics refresh has run on a graph with a node covered by two zones
\* that both carry an extra for the same flag, and a node covered by none.
C13_Witness ==
    /\ last.op = "geo" /\ ~last.raised
    /\ \E n \in G.nodes :
        /\ Cardinality(Covering(n)) >= 2
        /\ \E f \in Flags :
            \A k \in Covering(n) : geopolitics_polygons[k].target_flags[f] > 0
    /\ \E n \in G.nodes : Covering(n) = {}

----------------------------------------------------------------------------
(* Properties of the vessel flag *)

\* The flag a request carries: the alias of the country of its origin port, when
\* the origin is a registered port of a country the alias table lists.
ExpectedFlag(req) ==
    IF /\ req.origin.type = "port"
       /\ req.origin.portId \in DOMAIN PORTS
       /\ PORTS[req.origin.portId].country \in DOMAIN country_aliases
    THEN country_aliases[PORTS[req.origin.portId].country]
    ELSE NoIso

\* The geopolitical term of a node for a flag: the base risk, plus the extra of
\* that flag alone when there is one.
ExpectedGeo(n, flag) ==
    G.attr[n].geo_base_risk
    + (IF flag \in Flags THEN G.attr[n].geo_target_flags[flag] ELSE 0)

\* Four times the cost of an edge with that geopolitical term.
ExpectedCost(mode, flag, u, v) ==
    LET l == Lambda2(mode)
    IN  4 * G.distance_nm[{u, v}]
        + l.p * (G.attr[u].piracy_risk + G.attr[v].piracy_risk)
        + l.w * (G.attr[u].weather_risk + G.attr[v].weather_risk)
        + l.d * (G.attr[u].depth_penalty + G.attr[v].depth_penalty)
        + l.t * (TrafficOf(G, u) + TrafficOf(G, v))
        + l.geo * (ExpectedGeo(u, flag) + ExpectedGeo(v, flag))

\* C14: the flag of a request is inferred from the country of its origin port
\* only; without a flag the geopolitical term of every edge cost and of the
\* summary is the base risk alone, with a flag it is the base risk plus the
\* extra of that flag and of no other.
C14_FlagExtras ==
    response.status = "ok" =>
        LET flag == ExpectedFlag(response.request) IN
        /\ Res.vessel_iso3 = flag
        /\ response.request.origin.type = "coordinates" => flag = NoIso
        /\ \A e \in G.edges :
            LET u == CHOOSE x \in e : TRUE
                v == CHOOSE x \in e : x # u
            IN  weight(G, response.request.mode, Res.vessel_iso3, u, v)
                  = ExpectedCost(response.request.mode, flag, u, v)
        /\ 2 * Res.summary.totalGeopoliticalRisk.num * Res.summary.totalDistanceNm
             = Res.summary.totalGeopoliticalRisk.den
               * SumSeq([k \in 1..SegCount |->
                            (ExpectedGeo(Res.path_nodes[k], flag)
                             + ExpectedGeo(Res.path_nodes[k + 1], flag)) * SegDist[k]],
                        SegCount)

\* A route from the port of a country the alias table does not list passed
\* through a node that carries a flag-specific extra.
C14_Witness ==
    /\ response.status = "ok"
    /\ response.request.origin.type = "port"
    /\ Res.vessel_iso3 = NoIso
    /\ SegCount >= 1
    /\ \E k \in DOMAIN Res.path_nodes : \E f \in Flags :
        G.attr[Res.path_nodes[k]].geo_target_flags[f] > 0

\* A route from the port of a flagged country passed through a node where the
\* extra of that flag differs from the extra of another flag.
C14_Flagged ==
    /\ response.status = "ok"
    /\ Res.vessel_iso3 = "TZA"
    /\ \E k \in DOMAIN Res.path_nodes :
        G.attr[Res.path_nodes[k]].geo_target_flags["TZA"]
          # G.attr[Res.path_nodes[k]].geo_target_flags["IRN"]

----------------------------------------------------------------------------
(* Properties of the traffic levels *)

\* The breakpoints of the traffic level: the least vessel count of the levels
\* 1, 2 and 3.
Breakpoints == {1, 3, 10}

\* The level of a vessel count: the number of breakpoints it has reached.
Level(count) == Cardinality({b \in Breakpoints : count >= b})

\* C16: after a traffic refresh that received data, the traffic_risk of every
\* node is the level of the vessel count of its traffic cell (0 for no vessel,
\* 1 for one or two, 2 for three to nine, 3 for ten or more), so it is in 0..3
\* and equal for the nodes of one cell.
C16_TrafficLevels ==
    (last.op = "traffic" /\ last.cell_counts # <<>>) =>
        /\ \A n \in G.nodes :
            /\ G.attr[n].traffic_risk
                 = Level(CountGet(last.cell_counts,
                                  TrafficCell(G.attr[n].lat, G.attr[n].lon)))
            /\ G.attr[n].traffic_risk \in 0..3
        /\ \A n, m \in G.nodes :
            TrafficCell(G.attr[n].lat, G.attr[n].lon)
              = TrafficCell(G.attr[m].lat, G.attr[m].lon)
                => G.attr[n].traffic_risk = G.attr[m].traffic_risk

\* A traffic refresh counted ten vessels in one cell and none in another, and
\* two nodes share the busy cell.
C16_Witness ==
    /\ last.op = "traffic"
    /\ \E c \in DOMAIN last.cell_counts : last.cell_counts[c] = 10
    /\ \E n, m \in G.nodes :
        /\ n # m
        /\ TrafficCell(G.attr[n].lat, G.attr[n].lon)
             = TrafficCell(G.attr[m].lat, G.attr[m].lon)
        /\ G.attr[n].traffic_risk = 3
    /\ \E n \in G.nodes : G.attr[n].traffic_risk = 0

\* A traffic refresh counted exactly three vessels in the cell of a node.
C16_ThreeVessels ==
    /\ last.op = "traffic"
    /\ \E n \in G.nodes :
        CountGet(last.cell_counts, TrafficCell(G.attr[n].lat, G.attr[n].lon)) = 3

----------------------------------------------------------------------------
(* Properties of the request errors *)

\* The request names a port the registry does not hold.
UnknownPort(req) ==
    \/ req.origin.type = "port" /\ req.origin.portId \notin DOMAIN PORTS
    \/ req.destination.type = "port" /\ req.destination.portId \notin DOMAIN PORTS

\* The request is of coordinates type and lacks one of them.
MissingCoordinates(req) ==
    \/ req.origin.type = "coordinates"
         /\ (req.origin.latitude = None \/ req.origin.longitude = None)
    \/ req.destination.type = "coordinates"
         /\ (req.destination.latitude = None \/ req.destination.longitude = None)

\* C17: a request that references a port id absent from the registry is
\* answered with a port-not-found error, which is not the invalid-request error
\* of missing coordinates, and no route is computed.
C17_UnknownPortIsPortNotFound ==
    (Answered /\ UnknownPort(response.request)) =>
        /\ response.status = "error"
        /\ response.error # "INVALID_REQUEST"
        /\ "result" \notin DOMAIN response

\* Both kinds of unresolvable request are refused without a route.
C17_NoRouteComputed ==
    (Answered /\ (UnknownPort(response.request) \/ MissingCoordinates(response.request))) =>
        /\ response.status = "error"
        /\ response.code = 400
        /\ "result" \notin DOMAIN response

----------------------------------------------------------------------------
(* Properties of the AIS collection *)

\* The vessels that sent a report from inside the bounding box, and the traffic
\* cell of the last such report of each.
Seen == {v \in Vessels : ais.latest[v] # NoPosition}
LatestCell(v) == TrafficCell(ais.latest[v][1], ais.latest[v][2])

RECURSIVE SumCounts(_, _)
\* The sum of the counts of the cells of S.
SumCounts(cell_counts, S) ==
    IF S = {} THEN 0
    ELSE LET c == CHOOSE x \in S : TRUE
         IN  cell_counts[c] + SumCounts(cell_counts, S \ {c})

\* C15: a collection that ran to the end of its window counts every vessel
\* seen inside the bounding box once, in the traffic cell of its most recent
\* report: the count of a cell is the number of vessels whose last report came
\* from it, the counts sum to the number of distinct vessels, and a vessel that
\* moved is counted in its last cell only.
C15_LatestCellCounts ==
    (ais.pc = "done" /\ ais.ended = "window") =>
        LET counts == ais.result.cell_counts IN
        /\ DOMAIN counts = {LatestCell(v) : v \in Seen}
        /\ \A c \in DOMAIN counts :
            counts[c] = Cardinality({v \in Seen : LatestCell(v) = c})
        /\ SumCounts(counts, DOMAIN counts) = Cardinality(Seen)
        /\ \A v \in ais.moved : ais.mmsi_to_cell[v] = LatestCell(v)

\* A collection ended at its window with a vessel that had moved between cells,
\* a cell with two vessels and a second cell.
C15_Witness ==
    /\ ais.pc = "done"
    /\ ais.ended = "window"
    /\ ais.moved # {}
    /\ Cardinality(DOMAIN ais.result.cell_counts) >= 2
    /\ \E c \in DOMAIN ais.result.cell_counts : ais.result.cell_counts[c] >= 2

\* C18: the collection coroutine always ends: whatever the stream does, it
\* reaches its return, and when it has, the connection is not open and a map of
\* cell counts was returned.
C18_CollectionTerminates ==
    /\ (ais.pc # "done") ~> (ais.pc = "done")
    /\ [](ais.pc = "done" =>
            /\ ais.connection # "open"
            /\ ais.result.returned
            /\ ais.ended \in {"no_key", "exception", "window"}
            /\ ais.ended = "exception" => ais.result.cell_counts = <<>>)

\* The loop is never waiting for a message after a deadline check that found
\* the window elapsed: a receive starts only inside the window.
C18_NoReceiveAfterWindow ==
    [][(ais.pc = "loop" /\ DeadlinePassed(ais.clock)) => ais'.pc # "recv"]_vars

\* The collection ended by its window after a receive that timed out inside it.
C18_Witness ==
    /\ ais.pc = "done"
    /\ ais.ended = "window"
    /\ ais.connection = "closed"
    /\ ais.clock > duration_sec

\* The collection ended by a transport error after it had seen a vessel.
C18_ErrorAfterData ==
    /\ ais.pc = "done"
    /\ ais.ended = "exception"
    /\ ais.connection = "closed"
    /\ Seen # {}

----------------------------------------------------------------------------
(* Properties of the startup *)

\* C19: once the graph is loaded or built, the startup reaches the serving
\* state whatever refresh fails: every stage after a failed one still runs, the
\* safety layer is built, and a request is answered as it would be on the graph
\* as built, with no trace of a refresh failure.
C19_StartupSurvivesRefreshFailure ==
    /\ (boot.pc \in {"geo", "weather", "traffic", "safety"}) ~> (boot.pc = "ready")
    /\ [](boot.pc = "aborted" => boot.log = {"build"})
    /\ [](boot.pc = "ready" => safety.built /\ G.built)
    /\ [](response.status # "none" =>
            /\ boot.pc = "ready"
            /\ response.status = route(build_grid_graph(bathy), response.request).status
            /\ response.code = route(build_grid_graph(bathy), response.request).code
            /\ response.error = route(build_grid_graph(bathy), response.request).error)

\* A startup whose geopolitics refresh failed went on, and a route was served.
C19_Witness ==
    /\ boot.pc = "ready"
    /\ "geo" \in boot.log
    /\ safety.built
    /\ response.status = "ok"
    /\ Len(response.result.path_nodes) >= 3

\* A startup in which every refresh failed serves a route.
C19_AllFailed ==
    /\ boot.pc = "ready"
    /\ boot.log = {"geo", "weather", "traffic"}
    /\ response.status = "ok"

\* A startup without pickle and with unreadable data files is aborted.
C19_BuildAborts == boot.pc = "aborted"

----------------------------------------------------------------------------
(* Properties of safe mode *)

RECURSIVE PathDistance(_, _)
\* The nautical miles of path p from its i-th node on.
PathDistance(p, i) ==
    IF i >= Len(p) THEN 0
    ELSE G.distance_nm[{p[i], p[i + 1]}] + PathDistance(p, i + 1)

\* Nodes a and b carry the same risks for the request, piracy aside.
SameButPiracy(a, b) ==
    /\ G.attr[a].weather_risk = G.attr[b].weather_risk
    /\ G.attr[a].depth_penalty = G.attr[b].depth_penalty
    /\ TrafficOf(G, a) = TrafficOf(G, b)
    /\ ExpectedGeo(a, ReqIso) = ExpectedGeo(b, ReqIso)

\* The pairs of paths between the snapped origin and destination that have the
\* same distance and differ in one node only, which has piracy_risk 3 on the
\* first path and 0 on the second, every other risk being the same.
PiracyTwins ==
    {pq \in ReqPaths \X ReqPaths :
        /\ Len(pq[1]) = Len(pq[2])
        /\ PathDistance(pq[1], 1) = PathDistance(pq[2], 1)
        /\ \E k \in 2..(Len(pq[1]) - 1) :
            /\ \A i \in 1..Len(pq[1]) : i # k => pq[1][i] = pq[2][i]
            /\ pq[1][k] # pq[2][k]
            /\ G.attr[pq[1][k]].piracy_risk = 3
            /\ G.attr[pq[2][k]].piracy_risk = 0
            /\ SameButPiracy(pq[1][k], pq[2][k])}

C20_ThirdPath ==
    /\ response.status = "ok"
    /\ \E pq \in PiracyTwins :
        \E q \in ReqPaths \ {pq[1], pq[2]} : PathDistance(q, 1) = PathDistance(pq[2], 1)

----------------------------------------------------------------------------
(* Properties of the snap *)

\* The place of node n in the enumeration of the nodes of the graph.
NodeIndex(n) == CHOOSE i \in 1..Len(NodeSeq(G)) : NodeSeq(G)[i] = n

\* Node n is a nearest node of point pt, and the first of the nearest nodes in
\* enumeration order.
FirstNearest(pt, n) ==
    /\ n \in G.nodes
    /\ \A m \in G.nodes :
        /\ HaversineSq(pt, n) <= HaversineSq(pt, m)
        /\ HaversineSq(pt, m) = HaversineSq(pt, n) => NodeIndex(n) <= NodeIndex(m)

\* C21: the node a point is snapped to is at the least great-circle distance
\* from it among all nodes of the graph, and among the nodes at that distance it
\* is the first in enumeration order; the route starts and ends at these nodes.
C21_SnapIsFirstNearest ==
    (Answered /\ Resolved /\ G.nodes # {}) =>
        /\ FirstNearest(<<ReqOrigin.lat, ReqOrigin.lon>>, SnapOrigin)
        /\ FirstNearest(<<ReqDest.lat, ReqDest.lon>>, SnapDest)
        /\ response.status = "ok" =>
            /\ Res.origin_node = SnapOrigin
            /\ Res.dest_node = SnapDest

\* A destination on land was snapped although two nodes are equally near, the
\* later of them in enumeration order being nearer to the origin.
C21_Witness ==
    /\ response.status = "ok"
    /\ Resolved
    /\ <<ReqDest.lat, ReqDest.lon>> \notin G.nodes
    /\ \E m \in G.nodes \ {SnapDest} :
        /\ HaversineSq(<<ReqDest.lat, ReqDest.lon>>, m)
             = HaversineSq(<<ReqDest.lat, ReqDest.lon>>, SnapDest)
        /\ NodeIndex(m) > NodeIndex(SnapDest)

----------------------------------------------------------------------------
(* Properties of the severity scale *)

\* The features of the least and of the greatest score.
MinFeature ==
    CHOOSE k \in DOMAIN safety.features :
        \A j \in DOMAIN safety.features : ~FracLess(FeatureScore(j), FeatureScore(k))
MaxFeature ==
    CHOOSE k \in DOMAIN safety.features :
        \A j \in DOMAIN safety.features : ~FracLess(FeatureScore(k), FeatureScore(j))

\* a - b as a fraction
FracDiff(a, b) == Frac(a.num * b.den - b.num * a.den, a.den * b.den)

\* Integer r is the rounding of 4 * (score - least) / (greatest - least): it is
\* within one half of it, and even when it is exactly one half away.
IsRounded(r, score) ==
    LET up == FracDiff(score, FeatureScore(MinFeature))
        span == FracDiff(FeatureScore(MaxFeature), FeatureScore(MinFeature))
        num == 4 * up.num * span.den
        den == up.den * span.num
    IN  /\ 2 * Abs(num - r * den) <= den
        /\ 2 * Abs(num - r * den) = den => r % 2 = 0

\* C22: when the cell scores are not all equal, the severity of a cell is
\* 1 + round(4 * (score - least) / (greatest - least)), which lies in 1..5;
\* every cell of the least score has severity 1, every cell of the greatest
\* score severity 5, and a cell of a higher score never has a lower severity.
C22_SeverityIsLinear ==
    (safety.built /\ safety.features # <<>> /\ ~UniformScores) =>
        /\ \A k \in DOMAIN safety.features :
            /\ safety.features[k].severity \in 1..5
            /\ IsRounded(safety.features[k].severity - 1, FeatureScore(k))
            /\ FracEq(FeatureScore(k), FeatureScore(MinFeature))
                 => safety.features[k].severity = 1
            /\ FracEq(FeatureScore(k), FeatureScore(MaxFeature))
                 => safety.features[k].severity = 5
        /\ \A i, j \in DOMAIN safety.features :
            FracLess(FeatureScore(i), FeatureScore(j))
                => safety.features[i].severity <= safety.features[j].severity

\* An overlay with a cell whose scaled score was rounded up and a cell whose
\* scaled score was rounded down, both strictly between the extremes.
C22_Witness ==
    /\ safety.built /\ safety.features # <<>> /\ ~UniformScores
    /\ \E i, j \in DOMAIN safety.features :
        LET span == FracDiff(FeatureScore(MaxFeature), FeatureScore(MinFeature))
            ui == FracDiff(FeatureScore(i), FeatureScore(MinFeature))
            uj == FracDiff(FeatureScore(j), FeatureScore(MinFeature))
        IN  /\ safety.features[i].severity \in 2..4
            /\ safety.features[j].severity \in 2..4
            /\ (safety.features[i].severity - 1) * ui.den * span.num > 4 * ui.num * span.den
            /\ (safety.features[j].severity - 1) * uj.den * span.num < 4 * uj.num * span.den

\* An overlay with a cell whose scaled score lies exactly half way between two
\* severities.
C22_Tie ==
    /\ safety.built /\ safety.features # <<>> /\ ~UniformScores
    /\ \E i \in DOMAIN safety.features :
        LET span == FracDiff(FeatureScore(MaxFeature), FeatureScore(MinFeature))
            ui == FracDiff(FeatureScore(i), FeatureScore(MinFeature))
        IN  2 * Abs(4 * ui.num * span.den - (safety.features[i].severity - 1) * ui.den * span.num)
              = ui.den * span.num

----------------------------------------------------------------------------
(* Properties of the geopolitics refresh *)

\* C23: the geopolitics refresh is idempotent: applied to a graph it has just
\* been applied to, whatever that graph held before, it leaves geo_base_risk,
\* geo_target_flags and geo_zones of every node, and the rest of the graph, as
\* they are.
C23_GeoRefreshIdempotent ==
    (last.op = "geo" /\ ~last.raised) =>
        LET again == apply_geopolitics_to_graph(G)
        IN  /\ \A n \in G.nodes :
                /\ again.attr[n].geo_base_risk = G.attr[n].geo_base_risk
                /\ again.attr[n].geo_target_flags = G.attr[n].geo_target_flags
                /\ again.attr[n].geo_zones = G.attr[n].geo_zones
            /\ again = G

\* Two consecutive geopolitics refreshes: the second changes nothing.
C23_SecondRefreshIsNoOp ==
    [][(last.op = "geo" /\ ~last.raised /\ RefreshStep("geo") /\ ~last'.raised)
          => G' = G]_vars

\* The geopolitics refresh ran after another refresh and changed the zones the
\* build had left on a node that two zones cover.
C23_Witness ==
    /\ last.op = "geo" /\ ~last.raised
    /\ refreshes >= 2
    /\ \E n \in G.nodes :
        /\ Len(G.attr[n].geo_zones) >= 2
        /\ G.attr[n].geo_zones # build_grid_graph(bathy).attr[n].geo_zones

----------------------------------------------------------------------------
(* Properties of interleaved refreshes *)

\* The nodes a loop has written so far.
Written(pass) == {pass.order[i] : i \in 1..(pass.at - 1)}

\* C24: the weather, traffic and geopolitics refreshes write disjoint node
\* attributes, so whatever the order and the interleaving of their per-node
\* writes, and whichever of them are skipped, each attribute of each node a
\* refresh has written holds what that refresh alone gives, and each attribute
\* of a node its refresh has not written holds what the build left: no write
\* of one refresh is lost to another.
C24_NoLostUpdate ==
    LET built == build_grid_graph(bathy)
        WeatherAlone == update_graph_weather(built, passes.weather.fetched)
        TrafficAlone == ApplyTrafficSnapshot(built, passes.traffic.cell_counts)
        GeoAlone == apply_geopolitics_to_graph(built)
    IN  \A n \in G.nodes :
            /\ G.attr[n].weather_risk =
                   IF n \in Written(passes.weather)
                   THEN WeatherAlone.attr[n].weather_risk
                   ELSE built.attr[n].weather_risk
            /\ G.attr[n].traffic_risk =
                   IF n \in Written(passes.traffic)
                   THEN TrafficAlone.attr[n].traffic_risk
                   ELSE built.attr[n].traffic_risk
            /\ LET from == IF n \in Written(passes.geo) THEN GeoAlone ELSE built
               IN  /\ G.attr[n].geo_base_risk = from.attr[n].geo_base_risk
                   /\ G.attr[n].geo_target_flags = from.attr[n].geo_target_flags
                   /\ G.attr[n].geo_zones = from.attr[n].geo_zones

\* C24, per step: a write of one loop changes only that loop's attributes.
C24_DisjointKeys ==
    [][\A n \in G.nodes :
        /\ (TrafficWrite \/ GeoWrite) =>
               G'.attr[n].weather_risk = G.attr[n].weather_risk
        /\ (WeatherWrite \/ GeoWrite) =>
               G'.attr[n].traffic_risk = G.attr[n].traffic_risk
        /\ (WeatherWrite \/ TrafficWrite) =>
               /\ G'.attr[n].geo_base_risk = G.attr[n].geo_base_risk
               /\ G'.attr[n].geo_target_flags = G.attr[n].geo_target_flags
               /\ G'.attr[n].geo_zones = G.attr[n].geo_zones]_vars

\* The three loops are in flight together, each has written some nodes and not
\* others, and one node written by all three carries a changed value of each.
C24_Witness ==
    /\ passes.weather.pc = "writing" /\ passes.weather.at > 1
    /\ passes.traffic.pc = "writing" /\ passes.traffic.at > 1
    /\ passes.geo.pc = "writing" /\ passes.geo.at > 1
    /\ \E n \in G.nodes :
        LET old == build_grid_graph(bathy).attr[n]
        IN  /\ G.attr[n].weather_risk # old.weather_risk
            /\ G.attr[n].traffic_risk > 0
            /\ G.attr[n].geo_zones # old.geo_zones

\* A refresh was skipped: two loops are done and the third never started.
C24_Skipped ==
    /\ passes.weather.pc = "done"
    /\ passes.geo.pc = "done"
    /\ passes.traffic.pc = "idle"

----------------------------------------------------------------------------
(* Properties of the per-mode coefficients *)

HazardTerms == {"p", "w", "d", "t", "geo"}

\* The ratio of the safe-mode to the balanced-mode coefficient of a term lies
\* between 3 and 10.
SafeWithinRange(term) ==
    /\ 3 * Lambda2("balanced")[term] <= Lambda2("safe")[term]
    /\ Lambda2("safe")[term] <= 10 * Lambda2("balanced")[term]

\* C25: for every hazard term (piracy, weather, depth, traffic, geopolitics)
\* the coefficient a safe-mode request is costed with is between 3 and 10 times
\* the balanced-mode coefficient, and the fast-mode coefficient is no larger
\* than the balanced-mode one.
C25_SafeThreeToTenTimesBalanced ==
    (Answered /\ response.request.mode = "safe") =>
        \A term \in HazardTerms :
            /\ SafeWithinRange(term)
            /\ Lambda2("fast")[term] <= Lambda2("balanced")[term]

\* The part of C25 the coefficients satisfy: fast mode never weighs a hazard
\* more than balanced mode, and the safe-mode piracy and depth coefficients are
\* 5 and 3 times the balanced ones.
C25_FastAtMostBalanced ==
    Answered =>
        /\ \A term \in HazardTerms :
               Lambda2("fast")[term] <= Lambda2("balanced")[term]
        /\ SafeWithinRange("p") /\ SafeWithinRange("d")

\* The terms outside the range: weather (2 times) and traffic (2.5 times) are
\* below it, geopolitics (12.5 times) is above it.
C25_OutsideRange ==
    Answered =>
        /\ Lambda2("safe").w < 3 * Lambda2("balanced").w
        /\ Lambda2("safe").t < 3 * Lambda2("balanced").t
        /\ Lambda2("safe").geo > 10 * Lambda2("balanced").geo

----------------------------------------------------------------------------
(* Properties of the route alerts *)

\* The zone ids of the nodes of a path, node after node, each node's zones in
\* the order of its geo_zones list.
RECURSIVE ZonesAlong(_, _)
ZonesAlong(g, path_nodes) ==
    IF path_nodes = <<>> THEN <<>>
    ELSE g.attr[Head(path_nodes)].geo_zones \o ZonesAlong(g, Tail(path_nodes))

\* A sequence without its repetitions: each element at its first occurrence.
RECURSIVE FirstOccurrences(_)
FirstOccurrences(sq) ==
    IF sq = <<>> THEN <<>>
    ELSE LET init == FirstOccurrences(SubSeq(sq, 1, Len(sq) - 1))
             x == sq[Len(sq)]
         IN  IF x \in SeqToSet(init) THEN init ELSE Append(init, x)

AlertZones == [k \in DOMAIN Res.route_alerts |-> Res.route_alerts[k].zone]
RouteOk == Answered /\ response.status = "ok"

\* C26: the alerts of a route are, in order, one per distinct geopolitical zone
\* touched by the path that has descriptive notes, in the order in which the
\* zones are first visited along the path; a zone without notes gets no alert
\* and no zone gets two.
C26_AlertsInVisitOrder ==
    RouteOk =>
        AlertZones = SelectSeq(FirstOccurrences(ZonesAlong(G, Res.path_nodes)),
                               LAMBDA z : ZoneNotes(z) # "")

\* What the alerts are: one per distinct zone touched by the path, with or
\* without notes, in sorted order of the zone ids.
C26_AlertsSortedByZoneId ==
    RouteOk =>
        /\ SeqToSet(AlertZones) = SeqToSet(ZonesAlong(G, Res.path_nodes))
        /\ \A j, k \in DOMAIN AlertZones : j # k => AlertZones[j] # AlertZones[k]
        /\ AlertZones = SelectSeq(ZoneIdsSorted, LAMBDA z : z \in SeqToSet(AlertZones))

\* A zone without notes is alerted.
C26_AlertWithoutNotes ==
    RouteOk /\ \E k \in DOMAIN Res.route_alerts : Res.route_alerts[k].notes = ""

\* The alerts are not in visit order: the path enters red_sea before hormuz
\* and the hormuz alert comes first.
C26_OutOfVisitOrder ==
    /\ RouteOk
    /\ FirstOccurrences(ZonesAlong(G, Res.path_nodes)) = <<"red_sea", "hormuz">>
    /\ AlertZones = <<"hormuz", "red_sea">>

----------------------------------------------------------------------------
(* Properties of the segments against the cost function *)

\* Twice the endpoint average the cost function uses for a term on the edge
\* under segment k of the route returned.
CostTwice(term, k) ==
    LET u == Res.path_nodes[k]
        v == Res.path_nodes[k + 1]
    IN  CASE term = "piracy"  -> G.attr[u].piracy_risk + G.attr[v].piracy_risk
          [] term = "weather" -> G.attr[u].weather_risk + G.attr[v].weather_risk
          [] term = "depth"   -> G.attr[u].depth_penalty + G.attr[v].depth_penalty
          [] term = "traffic" -> TrafficOf(G, u) + TrafficOf(G, v)
          [] term = "geo"     -> geopolitical_node_penalty(G, Res.vessel_iso3, u)
                                 + geopolitical_node_penalty(G, Res.vessel_iso3, v)

\* The value a segment carries equals the endpoint average of the cost function.
Carries(seg, field, twice) ==
    /\ field \in DOMAIN seg
    /\ 2 * seg[field].num = twice * seg[field].den

\* C27: every emitted segment carries, for each risk term of the edge cost
\* (piracy, weather, depth, traffic, geopolitics), the endpoint-averaged value
\* the cost function used for that edge.
C27_SegmentsCarryCostAverages ==
    RouteOk =>
        \A k \in 1..SegCount :
            LET seg == Res.path.segments[k]
            IN  /\ Carries(seg, "piracyRisk", CostTwice("piracy", k))
                /\ Carries(seg, "weatherRisk", CostTwice("weather", k))
                /\ Carries(seg, "depthPenalty", CostTwice("depth", k))
                /\ Carries(seg, "trafficRisk", CostTwice("traffic", k))
                /\ Carries(seg, "geopoliticalRisk", CostTwice("geo", k))

\* What a segment carries: the piracy, weather and depth averages of the cost
\* function, and no traffic or geopolitical value under any name.
C27_ThreeTermsCarried ==
    RouteOk =>
        \A k \in 1..SegCount :
            LET seg == Res.path.segments[k]
            IN  /\ Carries(seg, "piracyRisk", CostTwice("piracy", k))
                /\ Carries(seg, "weatherRisk", CostTwice("weather", k))
                /\ Carries(seg, "depthPenalty", CostTwice("depth", k))
                /\ DOMAIN seg = {"from", "to", "distanceNm", "weatherRisk",
                                 "piracyRisk", "depthPenalty"}

\* A segment over an edge whose cost had a traffic and a geopolitical part.
C27_UncarriedTerms ==
    /\ RouteOk
    /\ \E k \in 1..SegCount :
        /\ CostTwice("traffic", k) > 0
        /\ CostTwice("geo", k) > 0
        /\ Lambda2(response.request.mode).t > 0
        /\ Lambda2(response.request.mode).geo > 0

----------------------------------------------------------------------------
(* Properties of the safety overlay at startup *)

\* C28: the safety overlay served is always the normalization of the node
\* attributes currently in the graph: it is computed only after the
\* geopolitics, weather and traffic refreshes of the startup have each finished
\* or failed, in that order, and no node attribute changes once it has been
\* computed.
C28_OverlayFollowsGraph ==
    /\ [](safety.built =>
            /\ boot.pc = "ready"
            /\ safety = build_safety_layer_from_graph(G))
    /\ [][safety' # safety => boot.pc = "safety" /\ boot'.pc = "ready"]_vars
    /\ [][boot'.pc = "safety" => boot.pc \in {"traffic", "safety"}]_vars
    /\ [][boot'.pc = "traffic" => boot.pc \in {"weather", "traffic"}]_vars
    /\ [][boot'.pc = "weather" => boot.pc \in {"geo", "weather"}]_vars
    /\ [][safety.built => G' = G]_vars

\* The overlay is served after a startup in which a refresh failed and another
\* changed the graph, and a route has been answered since.
C28_Witness ==
    /\ boot.pc = "ready"
    /\ safety.built
    /\ boot.log # {}
    /\ G # build_grid_graph(bathy)
    /\ safety # build_safety_layer_from_graph(build_grid_graph(bathy))
    /\ response.status = "ok"

----------------------------------------------------------------------------
(* Properties of a route from a node to itself *)

\* The fraction is a number and that number is zero.
IsZero(q) == q.num = 0 /\ q.den > 0

\* C29: when origin and destination snap to the same node, compute_route
\* succeeds with a path of one coordinate and no segment, a total distance and
\* an estimated duration of 0, and each of the five summary risks 0: nothing is
\* divided by the zero total distance.
C29_SameNodeRoute ==
    (Answered /\ Snapped /\ SnapOrigin = SnapDest) =>
        /\ response.status = "ok"
        /\ Res.path_nodes = <<SnapOrigin>>
        /\ Res.path.coordinates = << <<G.attr[SnapOrigin].lat, G.attr[SnapOrigin].lon>> >>
        /\ Res.path.segments = <<>>
        /\ Res.summary.totalDistanceNm = 0
        /\ IsZero(Res.summary.estimatedDurationHours)
        /\ \A f \in RiskNames : IsZero(SummaryOf(f))

\* A request between two different points that snap to one node whose risks
\* are not all zero.
C29_Witness ==
    /\ Answered /\ Snapped /\ SnapOrigin = SnapDest
    /\ response.status = "ok"
    /\ <<ReqOrigin.lat, ReqOrigin.lon>> # <<ReqDest.lat, ReqDest.lon>>
    /\ G.attr[SnapOrigin].piracy_risk > 0
    /\ G.attr[SnapOrigin].geo_base_risk > 0

----------------------------------------------------------------------------
(* Properties of a failed AIS collection *)

\* C30: when the AIS collection ends by an exception, reports received before
\* it included, the snapshot returned is empty, not the reports gathered so
\* far, and the traffic refresh then leaves the traffic_risk of every node that
\* has one unchanged (a node that has none gets the default 0) and changes no
\* other attribute.
C30_ErrorLeavesTrafficRisk ==
    [][(AisApply /\ ais.ended = "exception") =>
        /\ ais.result.cell_counts = <<>>
        /\ G'.nodes = G.nodes
        /\ \A n \in G.nodes :
            G'.attr[n] = IF G.attr[n].traffic_risk = Absent
                         THEN [G.attr[n] EXCEPT !.traffic_risk = 0]
                         ELSE G.attr[n]]_vars

\* The snapshot of a collection that ended by an exception is empty whatever
\* had been received.
C30_ErrorGivesEmptySnapshot ==
    (ais.pc = "done" /\ ais.ended = "exception") =>
        ais.result = [returned |-> TRUE, cell_counts |-> <<>>]

\* The refresh ran after a collection that had seen vessels and then failed,
\* on a graph holding a positive traffic_risk, which is still there.
C30_Witness ==
    /\ last.op = "traffic"
    /\ ais.ended = "exception"
    /\ Seen # {}
    /\ \E n \in G.nodes : G.attr[n].traffic_risk >= 1
====
